---- MODULE Spec2Model ----
(***************************************************************************)
(* A model of xgfone/go-log: the size-based rotating file writer, the      *)
(* level and sampling gate, level inheritance, the emitter pool, the mutex *)
(* writer, the JSON encoder, the path of a log request, the SimpleSampler, *)
(* the level-split writer, the buffered writer, the end of a log call and  *)
(* the pre-encoded context of the engines.                                 *)
(***************************************************************************)
EXTENDS Integers, Sequences, FiniteSets, TLC

(***************************************************************************)
(* Bounds of the model.                                                    *)
(***************************************************************************)
\* the configured maximum size (bytes) of the rotating file
MaxFileSize == 2
\* the largest configured backup count
MaxBackups == 2
\* the number of Write calls of one behaviour that put bytes into the file
MaxWrites == 3

\* number of loggers of a parent-child chain
MaxLoggers == 3

\* number of goroutines that log, and of log calls they make in all
MaxCallers == 2
MaxCalls == 3

\* the fields of one record
MaxFields == 2

\* the hooks of a logger
MaxHooks == 2

\* the updates of the table of a sampler
MaxUpdates == 2

\* the records given to a LevelSplitWriter, and the writes on a BufferWriter
MaxRecords == 2

\* the size of the buffer of a BufferWriter
BufSize == 2

\* the writes of a run of equal writes to a rotating file
MaxSeq == 5

(***************************************************************************)
(* Program constants of writer/file.go (second half of level_writer.go).   *)
(***************************************************************************)
MaxInt32 == 2147483647
DefaultFileSize == 104857600

VARIABLES
    \* ---- SizedRotatingFile and the directory it writes to
    fs,          \* fs[0] is the base file, fs[i] the backup "filename.i"
    file,        \* f.file: 0 is nil, otherwise the id of the open handle
    nbytes,      \* f.nbytes, less npad
    npad,        \* the part of f.nbytes that counts the pad bytes of the file opened
    closed,      \* f.closed
    maxSize,     \* f.maxSize
    backupCount, \* f.backupCount
    hcloses,     \* how many times the handle f.file points to has been Close()d
    dbl,         \* history: some handle has been Close()d more than once
    wid,         \* the number of Write calls that have put bytes into a file
    ret,         \* what the last call returned
    rot,         \* history: the last rotation attempt
    \* ---- Engine: the level and sampling gate
    elevel,         \* e.level
    sampler,        \* e.sampler: 0 is nil, otherwise an index into Samplers
    globalLevel,    \* the global level (negative: not set)
    globalSampling, \* globalSampling
    gret,           \* what the last call on the engine returned
    \* ---- a chain of loggers, each the child of the one before it
    kind,     \* "Logger": the Logger with UnsetLevel; "Engine": the Engine
    made,     \* the loggers 1..made exist; logger 1 is the root
    lvl,      \* lvl[n]: the level field of logger n
    lastSet,  \* history: the argument of the last SetLevel on n since it was unset
    unsetH,   \* history: n was made by New or unset, and has not called SetLevel since
    lret,     \* what the last call on a logger returned
    \* ---- the emitter pool and the goroutines that log through it
    pool,     \* emitterPool: the emitters a Get may return
    created,  \* the emitters 1..created have been made by the pool's New
    ebuf,     \* ebuf[e]: e.buffer, each byte tagged with the goroutine that appended it
    elvl,     \* elvl[e]: e.level
    tpc,      \* tpc[t]: 0 between calls, else the statement of emit that t runs next
    tem,      \* tem[t]: the emitter the call of t holds, 0 for none
    tlevel,   \* tlevel[t]: the local variable level of emit
    tmine,    \* history: the bytes the call of t has appended
    ncalls,   \* the log calls started so far
    gotLen,   \* history: len(e.buffer) when t last took an emitter from the pool
    reused,   \* history: the emitter t holds had been put into the pool before
    handed,   \* history: the last byte sequence passed to WriteLevel
    \* ---- safeWriter around a writer that takes its bytes one at a time
    lock,     \* w.lock: 0 when free, else the goroutine that holds it
    spc,      \* spc[t]: "out", or "in" between Lock and Unlock
    sop,      \* sop[t]: the method of safeWriter that t is in
    sleft,    \* sleft[t]: the steps the wrapped writer still takes for t
    sink,     \* the bytes the wrapped writer has got, tagged with their goroutine
    order,    \* history: the goroutines of the write calls, in the order of their Lock
    scalls,   \* the calls made so far
    \* ---- goroutines that close one SizedRotatingFile, each call by a route
    cpc,      \* cpc[t]: "idle", or the statement t runs next
    croute,   \* croute[t]: "direct", "safe", "buf" or "split"
    cleft,    \* cleft[t]: the Close calls on the file still to make in this call
    cerr,     \* cerr[t]: the error the call of t will return (TRUE: non-nil)
    werr,     \* werr[t]: the error of the Write that the Flush of t makes
    clate,    \* history: the call of t began after a Close call had returned
    cdone,    \* history: a Close call has returned
    bufn,     \* the bytes in the buffer of the bufio.Writer
    berr,     \* the error the bufio.Writer keeps after a failed Flush
    wlock,    \* the lock of the safeWriter around the file
    cret,     \* what the last Close call returned
    ccalls,   \* the Close calls begun so far
    jenc,     \* the JSONEncoder
    jname,    \* the name of the logger of the record
    jbuf,     \* the buffer of the record, as tokens
    jpc,      \* the phase of the record: "new", "fields", "done"
    jn,       \* history: the fields encoded into the record
    rlog,     \* the logger of the requests: [level, smp, hooks]
    rpc,      \* "idle", "chain" (newEmitter has returned) or "done" (Print has)
    rem,      \* what newEmitter returned: 0 for nil, 1 for an emitter
    rlevel,   \* the level of the request
    rgets,    \* history: the emitterPool.Get calls of the request
    rhooks,   \* history: rhooks[h]: the runs of hook h in the request
    rfields,  \* the fields encoded into e.buffer
    rkv,      \* the chained calls made on the result, so far
    rout,     \* what Print did: WriteLevel calls, their fields and error; what the caller got
    rcalls,   \* the requests begun so far
    rbuf,     \* the fields in the buffer of the emitter of the request, in order
    snames,   \* s.names
    svalue,   \* the map s.value holds
    salias,   \* the map s.value holds is the map s.names points to
    spub,     \* history: the map s.value holds, as it was when it was stored
    slevel,   \* s.level, the default threshold
    slock,    \* s.lock: 0 or the goroutine that holds it
    upc,      \* upc[t]: the statement of its update that t runs next
    uop,      \* uop[t]: the update of t, and what its loop has still to insert
    gnames,   \* history: the table after the updates begun so far, each taken whole
    gprev,    \* history: the table before the last update begun
    sload,    \* the Sample call in progress: its arguments and the map it has loaded
    sret,     \* what the last Sample call returned, and from what
    nupd,     \* the updates begun so far
    wkind,    \* wkind[w]: the kind of writer w, and whether its Close fails
    wreg,     \* the map of the LevelSplitWriter: level to writer, 0 for no entry
    wcalls,   \* wcalls[w]: the records passed to w, each with the method called
    wdata,    \* wdata[w]: the records w has written
    wcloses,  \* wcloses[w]: the Close calls w has got
    wsent,    \* history: the records given to the LevelSplitWriter, each with its level
    wsret,    \* what the last call on the LevelSplitWriter returned
    bsafe,    \* the BufferWriter is under a SafeWriter
    bbuf,     \* the bytes in the buffer of the bufio.Writer
    bwerr,    \* the error the bufio.Writer keeps (TRUE: non-nil)
    bsink,    \* the bytes the wrapped writer has got
    bwrote,   \* history: the bytes the Write calls have accepted, in order
    bnw,      \* the Write calls made so far
    bdirect,  \* the direct writes to the wrapped writer made so far
    bwret,    \* what the last call returned; fit: its bytes fitted in the free space; sunk: the bytes it delivered
    qw,       \* the length of each write of the run
    qk,       \* the writes of the run made so far
    qok,      \* every write of the run so far returned n = qw and no error
    fkind,    \* the emit method of the calls: "Emitter" or "logger"
    fthr,     \* the level of the logger
    flevel,   \* the level field of each pooled object
    fpool,    \* the objects in the pool
    fmade,    \* the objects the pool has made
    fpc,      \* where each goroutine is in its call
    fem,      \* the object each goroutine holds or has just put back
    floc,     \* the local variable level of each running Emitter.emit
    fres,     \* the last call of each goroutine: its level, what the gate said, whether the writer has got its record, how it ended
    ftouch,   \* history: an emit has read a field of its object after the Put
    fexit,    \* atexit.Exit has been called
    fcalls,   \* the calls started so far
    cmade,    \* the engines made so far, all with the same Output
    cenc,     \* the encoder of the Output
    corigs,   \* e.origs of each engine: its context key-values
    cctx,     \* e.ctx of each engine: the bytes encoded in advance
    cops      \* the calls made so far

fileVars == <<fs, file, nbytes, npad, closed, maxSize, backupCount, hcloses, dbl, wid,
              ret, rot>>

gateVars == <<elevel, sampler, globalLevel, globalSampling, gret>>

chainVars == <<kind, made, lvl, lastSet, unsetH, lret>>

emitVars == <<pool, created, ebuf, elvl, tpc, tem, tlevel, tmine, ncalls,
              gotLen, reused, handed>>

safeVars == <<lock, spc, sop, sleft, sink, order, scalls>>

closeVars == <<cpc, croute, cleft, cerr, werr, clate, cdone, bufn, berr, wlock, cret, ccalls>>

jsonVars == <<jenc, jname, jbuf, jpc, jn>>

rqVars == <<rlog, rpc, rem, rlevel, rgets, rhooks, rfields, rkv, rout, rcalls,
            rbuf>>

smpVars == <<snames, svalue, salias, spub, slevel, slock, upc, uop, gnames, gprev, sload, sret, nupd>>

splitVars == <<wkind, wreg, wcalls, wdata, wcloses, wsent, wsret>>

bufVars == <<bsafe, bbuf, bwerr, bsink, bwrote, bnw, bdirect, bwret>>

seqVars == <<qw, qk, qok>>

finVars == <<fkind, fthr, flevel, fpool, fmade, fpc, fem, floc, fres, ftouch, fexit, fcalls>>

ctxVars == <<cmade, cenc, corigs, cctx, cops>>

vars == <<fileVars, gateVars, chainVars, emitVars, safeVars, closeVars,
          jsonVars, rqVars, smpVars, splitVars, bufVars, seqVars, finVars,
          ctxVars>>

\* what the operations of one part leave alone
notFile == <<gateVars, chainVars, emitVars, safeVars, closeVars, jsonVars,
             rqVars, smpVars, splitVars, bufVars, seqVars, finVars, ctxVars>>
notGate == <<fileVars, chainVars, emitVars, safeVars, closeVars, jsonVars,
             rqVars, smpVars, splitVars, bufVars, seqVars, finVars, ctxVars>>
notChain == <<fileVars, gateVars, emitVars, safeVars, closeVars, jsonVars,
              rqVars, smpVars, splitVars, bufVars, seqVars, finVars, ctxVars>>
notEmit == <<fileVars, gateVars, chainVars, safeVars, closeVars, jsonVars,
             rqVars, smpVars, splitVars, bufVars, seqVars, finVars, ctxVars>>
notSafe == <<fileVars, gateVars, chainVars, emitVars, closeVars, jsonVars,
             rqVars, smpVars, splitVars, bufVars, seqVars, finVars, ctxVars>>
notClose == <<gateVars, chainVars, emitVars, safeVars, jsonVars, rqVars,
              smpVars, splitVars, bufVars, seqVars, finVars, ctxVars>>
notJson == <<fileVars, gateVars, chainVars, emitVars, safeVars, closeVars,
             rqVars, smpVars, splitVars, bufVars, seqVars, finVars, ctxVars>>
notRq == <<fileVars, gateVars, chainVars, emitVars, safeVars, closeVars,
           jsonVars, smpVars, splitVars, bufVars, seqVars, finVars, ctxVars>>
notSmp == <<fileVars, gateVars, chainVars, emitVars, safeVars, closeVars,
            jsonVars, rqVars, splitVars, bufVars, seqVars, finVars, ctxVars>>
notSplit == <<fileVars, gateVars, chainVars, emitVars, safeVars, closeVars,
              jsonVars, rqVars, smpVars, bufVars, seqVars, finVars, ctxVars>>
notBuf == <<fileVars, gateVars, chainVars, emitVars, safeVars, closeVars,
            jsonVars, rqVars, smpVars, splitVars, seqVars, finVars, ctxVars>>
notSeq == <<fileVars, gateVars, chainVars, emitVars, safeVars, closeVars,
            jsonVars, rqVars, smpVars, splitVars, bufVars, finVars, ctxVars>>
notFileSeq == <<gateVars, chainVars, emitVars, safeVars, closeVars, jsonVars,
                rqVars, smpVars, splitVars, bufVars, finVars, ctxVars>>
notFin == <<fileVars, gateVars, chainVars, emitVars, safeVars, closeVars,
            jsonVars, rqVars, smpVars, splitVars, bufVars, seqVars, ctxVars>>
notCtx == <<fileVars, gateVars, chainVars, emitVars, safeVars, closeVars,
            jsonVars, rqVars, smpVars, splitVars, bufVars, seqVars, finVars>>

(***************************************************************************)
(* Files. A file's data is the sequence of its bytes; a byte is the number *)
(* of the Write call that wrote it (0: the byte was there before the       *)
(* writer was created).                                                    *)
(***************************************************************************)
NoFile == [exists |-> FALSE, data |-> <<>>, pad |-> 0]
MkFile(d) == [exists |-> TRUE, data |-> d, pad |-> 0]
FileIdx == 0..(MaxBackups + 1)

RECURSIVE Repeat(_, _)
Repeat(x, n) == IF n <= 0 THEN <<>> ELSE <<x>> \o Repeat(x, n - 1)

NoFault == [at |-> "none", i |-> 0]

\* NewSizedRotatingFile: the maxSize the constructor stores
NewSizedRotatingFile(filesize, filenum) ==
    IF filenum <= 0 THEN MaxInt32
    ELSE IF filesize <= 0 THEN DefaultFileSize
    ELSE filesize

\* fileIsExist(name)
fileIsExist(o, i) == o.fs[i].exists

\* fileSize(name): pad + n bytes, kept as two parts since a file of more
\* than MaxInt32 bytes is wider than the integers of the model
fileSize(o, i) == [pad |-> o.fs[i].pad, n |-> Len(o.fs[i].data)]

\* a bug ranges could have: the sequence starts one past start
rangesFromNext(start, stop, step) ==
    LET RECURSIVE from(_)
        from(x) == IF (step > 0 /\ x < stop) \/ (step < 0 /\ x > stop)
                   THEN <<x>> \o from(x + step) ELSE <<>>
    IN  from(start + 1)

\* ranges(start, stop, step), as the sequence it returns (step # 0)
RECURSIVE ranges(_, _, _)
ranges(start, stop, step) ==
    IF step > 0
    THEN IF start < stop THEN <<start>> \o ranges(start + step, stop, step) ELSE <<>>
    ELSE IF start > stop THEN <<start>> \o ranges(start + step, stop, step) ELSE <<>>

(***************************************************************************)
(* The object state o that the methods transform:                          *)
(*   [fs, file, nbytes, npad, closed, hcloses, dbl, err, steps]            *)
(* err is the error the method returns (TRUE: non-nil). flt is the one     *)
(* step of the call at which the filesystem fails, if the call gets there; *)
(* steps collects the fallible filesystem steps the call has executed.     *)
(***************************************************************************)
At(a) == [at |-> a, i |-> 0]

\* one fallible filesystem step: it fails iff it is the step flt names
Step(o, a, flt) == [o EXCEPT !.steps = @ \cup {a}, !.err = (flt = a)]

\* open(): os.OpenFile(O_CREATE|O_APPEND), file.Stat(), seed nbytes
openAt(o, flt, fOpen, fStat) ==
    LET a == Step(o, At(fOpen), flt)
    IN  IF a.err THEN a
        ELSE LET c == Step([a EXCEPT !.fs[0] = IF @.exists THEN @ ELSE MkFile(<<>>)],
                           At(fStat), flt)
             IN  IF c.err THEN c
                 ELSE [c EXCEPT !.file = 1,
                                !.hcloses = 0,
                                !.nbytes = fileSize(c, 0).n,
                                !.npad = fileSize(c, 0).pad]

open(o, flt) == openAt(o, flt, "open", "openstat")

\* close(): close the handle, if any, and forget it
close(o, flt) ==
    IF o.file # 0
    THEN [Step(o, At("close"), flt) EXCEPT !.dbl = @ \/ o.hcloses >= 1,
                                           !.hcloses = 0,
                                           !.file = 0]
    ELSE [o EXCEPT !.err = FALSE]

\* the loop of doRollover over ranges(backupCount-1, 0, -1)
RECURSIVE shiftBackups(_, _, _)
shiftBackups(o, is, flt) ==
    IF is = <<>> \/ o.err THEN o
    ELSE LET i == Head(is)
             n == IF fileIsExist(o, i)
                  THEN LET r == Step([o EXCEPT !.fs[i + 1] = NoFile],
                                     [at |-> "rename", i |-> i], flt)
                       IN  IF r.err THEN r
                           ELSE [r EXCEPT !.fs[i + 1] = o.fs[i], !.fs[i] = NoFile]
                  ELSE o
         IN  shiftBackups(n, Tail(is), flt)

\* the tail of doRollover: remove "filename.1", rename the base file to it, open()
moveBase(s, flt) ==
    LET r == IF fileIsExist(s, 1) THEN Step(s, At("remove"), flt) ELSE s
    IN  IF r.err THEN r
        ELSE LET d == [r EXCEPT !.fs[1] = NoFile]
                 m == IF fileIsExist(d, 0) THEN Step(d, At("renamebase"), flt) ELSE d
             IN  IF m.err THEN m
                 ELSE openAt([m EXCEPT !.fs[1] = IF fileIsExist(d, 0) THEN d.fs[0] ELSE @,
                                       !.fs[0] = NoFile],
                             flt, "reopen", "reopenstat")

\* a bug doRollover could have: the backups are not moved up before the base
\* file takes the place of "filename.1"
rolloverFilesNoShift(c, N, flt) ==
    IF ~fileIsExist(c, 0) THEN c
    ELSE LET t == Step(c, At("stat"), flt)
         IN  IF t.err THEN t
             ELSE IF fileSize(t, 0) = [pad |-> 0, n |-> 0] THEN t
             ELSE moveBase(t, flt)

\* doRollover() after its close(): the checks, the renames and open()
rolloverFiles(c, N, flt) ==
    IF ~fileIsExist(c, 0) THEN c
    ELSE LET t == Step(c, At("stat"), flt)
         IN  IF t.err THEN t
             ELSE IF fileSize(t, 0) = [pad |-> 0, n |-> 0] THEN t
             ELSE LET s == shiftBackups(t, ranges(N - 1, 0, -1), flt)
                  IN  IF s.err THEN s ELSE moveBase(s, flt)

\* a bug doRollover could have: no check of the backup count
doRolloverAlways(o, N, flt) ==
    LET c == close(o, flt)
    IN  IF c.err THEN c ELSE rolloverFiles(c, N, flt)

\* doRollover()
doRollover(o, N, flt) ==
    IF N > 0
    THEN LET c == close(o, flt)
         IN  IF c.err THEN c ELSE rolloverFiles(c, N, flt)
    ELSE [o EXCEPT !.err = FALSE]

\* f.file.Write(data) on the handle: wn bytes reach the file
osWrite(o, data, flt) ==
    IF o.file = 0 THEN [o |-> o, n |-> 0, err |-> TRUE]
    ELSE LET wn == IF flt.at = "write" /\ flt.i < Len(data) THEN flt.i ELSE Len(data)
             short == {[at |-> "write", i |-> k] : k \in 0..(Len(data) - 1)}
         IN  [o |-> [o EXCEPT !.fs[0].data = @ \o SubSeq(data, 1, wn),
                              !.steps = @ \cup short],
              n |-> wn, err |-> wn < Len(data)]

\* a bug Write could have: after a failed rotation it reports the length of
\* the data as written
writeOpenCounted(o, S, N, data, flt) ==
         LET o1 == IF o.file = 0 THEN open(o, flt) ELSE [o EXCEPT !.err = FALSE]
         IN  IF o1.err THEN [o |-> o1, n |-> 0, err |-> TRUE, rotated |-> "no"]
             ELSE LET over == o1.nbytes + Len(data) > S - o1.npad
                      o2 == IF over THEN doRollover(o1, N, flt) ELSE o1
                      moved == o2.fs # o1.fs
                      how == IF ~over THEN "no"
                             ELSE IF o2.err THEN (IF moved THEN "broken" ELSE "failed")
                             ELSE IF moved THEN "done" ELSE "skipped"
                  IN  IF o2.err
                      THEN [o |-> o2, n |-> Len(data), err |-> TRUE, rotated |-> how]
                      ELSE LET w == osWrite(o2, data, flt)
                           IN  IF w.err
                               THEN [o |-> w.o, n |-> w.n, err |-> TRUE, rotated |-> how]
                               ELSE [o |-> [w.o EXCEPT !.nbytes = @ + w.n],
                                     n |-> w.n, err |-> FALSE, rotated |-> how]

\* Write(data) past the closed check: open, roll over, write, count
writeOpen(o, S, N, data, flt) ==
         LET o1 == IF o.file = 0 THEN open(o, flt) ELSE [o EXCEPT !.err = FALSE]
         IN  IF o1.err THEN [o |-> o1, n |-> 0, err |-> TRUE, rotated |-> "no"]
             ELSE LET over == o1.nbytes + Len(data) > S - o1.npad
                      o2 == IF over THEN doRollover(o1, N, flt) ELSE o1
                      moved == o2.fs # o1.fs
                      how == IF ~over THEN "no"
                             ELSE IF o2.err THEN (IF moved THEN "broken" ELSE "failed")
                             ELSE IF moved THEN "done" ELSE "skipped"
                  IN  IF o2.err THEN [o |-> o2, n |-> 0, err |-> TRUE, rotated |-> how]
                      ELSE LET w == osWrite(o2, data, flt)
                           IN  IF w.err
                               THEN [o |-> w.o, n |-> w.n, err |-> TRUE, rotated |-> how]
                               ELSE [o |-> [w.o EXCEPT !.nbytes = @ + w.n],
                                     n |-> w.n, err |-> FALSE, rotated |-> how]

\* a bug Write could have: no check of the closed flag
WriteUnchecked(o, S, N, data, flt) == writeOpen(o, S, N, data, flt)

\* Write(data): the result is [o, n, err, rotated]
Write(o, S, N, data, flt) ==
    IF o.closed = 1 THEN [o |-> o, n |-> 0, err |-> TRUE, rotated |-> "no"]
    ELSE writeOpen(o, S, N, data, flt)

\* Close(): compare-and-swap closed 0 -> 1, then close()
Close(o, flt) ==
    IF o.closed = 0
    THEN close([o EXCEPT !.closed = 1], flt)
    ELSE [o EXCEPT !.err = FALSE]

\* Flush(): Sync the handle if there is one
Flush(o, flt) ==
    IF o.file # 0 THEN Step(o, At("sync"), flt) ELSE [o EXCEPT !.err = FALSE]

(***************************************************************************)
(* The level and sampling gate of Engine (engine.go) and the global        *)
(* sampling switch (sampler.go). The level constants and the global level  *)
(* live in a file of the repository that is not among the sources; they    *)
(* are taken from the specification: small non-negative ordered integers,  *)
(* LvlTrace the most verbose, LvlDisable the reserved maximum, and a        *)
(* negative global level meaning "not set".                                *)
(***************************************************************************)
LvlTrace == 0
LvlDebug == 20
LvlInfo == 40
LvlWarn == 60
LvlError == 80
LvlAlert == 100
LvlPanic == 120
LvlFatal == 126
LvlDisable == 127

Levels == {LvlTrace, LvlDebug, LvlInfo, LvlWarn, LvlError, LvlAlert, LvlPanic,
           LvlFatal, LvlDisable}

\* GetGlobalLevel() < LvlTrace: no global level is set
GlobalUnset == -1

\* the samplers a logger is given, each as the set of levels it lets through
\* (the first is the one of TestSampler: lvl > LvlWarn)
Samplers == << {l \in Levels : l > LvlWarn}, {}, {LvlInfo, LvlFatal, LvlDisable} >>

\* e.sampler.Sample(e.name, level)
Sample(smp, level) == level \in Samplers[smp]

\* globalSamplingIsEnabled()
globalSamplingIsEnabled(gs) == gs = 1

\* a bug disabled could have: the global sampling switch is not looked at
disabledAlwaysSampling(logLevel, minThresholdLevel, smp, gs) ==
    IF logLevel < minThresholdLevel THEN [disabled |-> TRUE, asked |-> FALSE]
    ELSE IF smp # 0
         THEN [disabled |-> ~Sample(smp, logLevel), asked |-> TRUE]
         ELSE [disabled |-> FALSE, asked |-> FALSE]

\* a bug disabled could have: the comparison with the threshold is reversed
disabledReversed(logLevel, minThresholdLevel, smp, gs) ==
    IF logLevel > minThresholdLevel THEN [disabled |-> TRUE, asked |-> FALSE]
    ELSE IF smp # 0 /\ globalSamplingIsEnabled(gs)
         THEN [disabled |-> ~Sample(smp, logLevel), asked |-> TRUE]
         ELSE [disabled |-> FALSE, asked |-> FALSE]

\* e.disabled(logLevel, minThresholdLevel); asked: the sampler was called
disabled(logLevel, minThresholdLevel, smp, gs) ==
    IF logLevel < minThresholdLevel THEN [disabled |-> TRUE, asked |-> FALSE]
    ELSE IF smp # 0 /\ globalSamplingIsEnabled(gs)
         THEN [disabled |-> ~Sample(smp, logLevel), asked |-> TRUE]
         ELSE [disabled |-> FALSE, asked |-> FALSE]

\* a bug isDisabled could have: a global level of LvlTrace counts as not set
isDisabledGlobalLE(level, own, global, smp, gs) ==
    IF level = LvlDisable THEN [disabled |-> TRUE, asked |-> FALSE]
    ELSE IF global <= LvlTrace THEN disabled(level, own, smp, gs)
    ELSE disabled(level, global, smp, gs)

\* a bug isDisabled could have: no check of the requested level for LvlDisable
isDisabledNoSentinel(level, own, global, smp, gs) ==
    IF global < LvlTrace THEN disabled(level, own, smp, gs)
    ELSE disabled(level, global, smp, gs)

\* e.isDisabled(level)
isDisabled(level, own, global, smp, gs) ==
    IF level = LvlDisable THEN [disabled |-> TRUE, asked |-> FALSE]
    ELSE IF global < LvlTrace THEN disabled(level, own, smp, gs)
    ELSE disabled(level, global, smp, gs)

GateInit ==
    /\ elevel = LvlDebug
    /\ sampler = 0
    /\ globalLevel = GlobalUnset
    /\ globalSampling = 1
    /\ gret = [op |-> "New", level |-> 0, enabled |-> FALSE, asked |-> FALSE]

GateIdle == GateInit

Returned(op) == [op |-> op, level |-> 0, enabled |-> FALSE, asked |-> FALSE]

\* e.SetLevel(level)
SetLevel ==
    /\ \E level \in Levels : elevel' = level
    /\ gret' = Returned("SetLevel")
    /\ UNCHANGED <<sampler, globalLevel, globalSampling>>
    /\ UNCHANGED notGate

\* SetGlobalLevel(level): a negative level unsets the global level
SetGlobalLevel ==
    /\ \E level \in Levels \cup {GlobalUnset} : globalLevel' = level
    /\ gret' = Returned("SetGlobalLevel")
    /\ UNCHANGED <<elevel, sampler, globalSampling>>
    /\ UNCHANGED notGate

\* GlobalDisableSampling(disable)
GlobalDisableSampling ==
    /\ \E disable \in BOOLEAN : globalSampling' = IF disable THEN 0 ELSE 1
    /\ gret' = Returned("GlobalDisableSampling")
    /\ UNCHANGED <<elevel, sampler, globalLevel>>
    /\ UNCHANGED notGate

\* WithSampler(sampler): nil cancels the sampler
WithSampler ==
    /\ \E smp \in 0..Len(Samplers) : sampler' = smp
    /\ gret' = Returned("WithSampler")
    /\ UNCHANGED <<elevel, globalLevel, globalSampling>>
    /\ UNCHANGED notGate

\* e.Enable(level), the check newLogger makes before it builds a record
Enable ==
    /\ \E level \in Levels :
         LET d == isDisabled(level, elevel, globalLevel, sampler, globalSampling)
         IN  gret' = [op |-> "Enable", level |-> level, enabled |-> ~d.disabled,
                      asked |-> d.asked]
    /\ UNCHANGED <<elevel, sampler, globalLevel, globalSampling>>
    /\ UNCHANGED notGate

GateNext == SetLevel \/ SetGlobalLevel \/ GlobalDisableSampling \/ WithSampler \/ Enable

(***************************************************************************)
(* Parent and child loggers. The sources hold two logger types: the Logger *)
(* whose child keeps a pointer to its parent and a level of -1 until it    *)
(* sets one (New, GetLevel, SetLevel, UnsetLevel, Log), and the Engine,     *)
(* whose child is a Clone of its parent. A behaviour is a chain of one     *)
(* type: logger 1 is the root and logger n+1 is made from logger n.        *)
(***************************************************************************)
Loggers == 1..MaxLoggers

\* the levels of the Logger (level.go) and the levels used with the Engine
LoggerLevels == {0, 50, 100, 150, 200, 255}
EngineLevels == {LvlDebug, LvlInfo, LvlWarn, LvlDisable}

ChainLevels(k) == IF k = "Logger" THEN LoggerLevels ELSE EngineLevels

\* the levels a record is asked at
RequestLevels(k) == ChainLevels(k) \ {LvlDisable}

\* New(name): the root has the level LvlDebug, which is 50 for the Logger
RootLevel(k) == IF k = "Logger" THEN 50 ELSE LvlDebug

\* the level field of a Logger that has not set its level
LevelUnset == -1

\* l.logger: the parent of logger n, 0 for nil
ParentOf(n) == n - 1

\* l.GetLevel() of the Logger (-2: panic), e.GetLevel() of the Engine
RECURSIVE GetLevel(_, _, _)
GetLevel(k, lv, n) ==
    IF k = "Engine" THEN lv[n]
    ELSE IF lv[n] >= 0 THEN lv[n]
    ELSE IF ParentOf(n) # 0 THEN GetLevel(k, lv, ParentOf(n))
    ELSE -2

ChainReturned(op, n) ==
    [op |-> op, logger |-> n, level |-> 0, emitted |-> FALSE, panic |-> FALSE]

ChainInit ==
    /\ kind \in {"Logger", "Engine"}
    /\ made = 1
    /\ lvl = [n \in Loggers |-> IF n = 1 THEN RootLevel(kind) ELSE 0]
    /\ lastSet = [n \in Loggers |-> IF n = 1 THEN RootLevel(kind) ELSE 0]
    /\ unsetH = [n \in Loggers |-> FALSE]
    /\ lret = ChainReturned("New", 1)

\* the loggers left alone
ChainIdle ==
    /\ kind = "Engine"
    /\ made = 1
    /\ lvl = [n \in Loggers |-> IF n = 1 THEN RootLevel(kind) ELSE 0]
    /\ lastSet = [n \in Loggers |-> IF n = 1 THEN RootLevel(kind) ELSE 0]
    /\ unsetH = [n \in Loggers |-> FALSE]
    /\ lret = ChainReturned("New", 1)

\* l.New() of the Logger: level -1 and logger: l; e.New(name) of the Engine:
\* Clone, which copies e.level
NewChild ==
    /\ made < MaxLoggers
    /\ made' = made + 1
    /\ lvl' = [lvl EXCEPT ![made + 1] = IF kind = "Logger" THEN LevelUnset ELSE lvl[made]]
    /\ unsetH' = [unsetH EXCEPT ![made + 1] = TRUE]
    /\ lret' = ChainReturned("New", made + 1)
    /\ UNCHANGED <<kind, lastSet>>
    /\ UNCHANGED notChain

\* l.SetLevel(level)
ChainSetLevel ==
    /\ \E n \in 1..made, level \in ChainLevels(kind) :
         /\ lvl' = [lvl EXCEPT ![n] = level]
         /\ lastSet' = [lastSet EXCEPT ![n] = level]
         /\ unsetH' = [unsetH EXCEPT ![n] = FALSE]
         /\ lret' = ChainReturned("SetLevel", n)
    /\ UNCHANGED <<kind, made>>
    /\ UNCHANGED notChain

\* l.UnsetLevel() of the Logger: panics on a logger without a parent
UnsetLevel ==
    /\ kind = "Logger"
    /\ \E n \in 1..made :
         IF ParentOf(n) = 0
         THEN /\ lret' = [ChainReturned("UnsetLevel", n) EXCEPT !.panic = TRUE]
              /\ UNCHANGED <<lvl, lastSet, unsetH>>
         ELSE /\ lvl' = [lvl EXCEPT ![n] = LevelUnset]
              /\ lastSet' = [lastSet EXCEPT ![n] = 0]
              /\ unsetH' = [unsetH EXCEPT ![n] = TRUE]
              /\ lret' = ChainReturned("UnsetLevel", n)
    /\ UNCHANGED <<kind, made>>
    /\ UNCHANGED notChain

\* l.GetLevel()
CallGetLevel ==
    /\ \E n \in 1..made :
         LET got == GetLevel(kind, lvl, n)
         IN  lret' = [ChainReturned("GetLevel", n) EXCEPT !.level = got,
                                                         !.panic = (got = -2)]
    /\ UNCHANGED <<kind, made, lvl, lastSet, unsetH>>
    /\ UNCHANGED notChain

\* l.Log(level, ...) of the Logger: nothing is emitted if lvl < l.GetLevel();
\* the Engine asks isDisabled, here with no global level and no sampler
Log ==
    /\ \E n \in 1..made, level \in RequestLevels(kind) :
         LET out == IF kind = "Logger"
                    THEN ~(level < GetLevel(kind, lvl, n))
                    ELSE ~isDisabled(level, GetLevel(kind, lvl, n), GlobalUnset, 0, 1).disabled
         IN  lret' = [ChainReturned("Log", n) EXCEPT !.level = level, !.emitted = out]
    /\ UNCHANGED <<kind, made, lvl, lastSet, unsetH>>
    /\ UNCHANGED notChain

ChainNext == NewChild \/ ChainSetLevel \/ UnsetLevel \/ CallGetLevel \/ Log

(***************************************************************************)
(* The emitter pool (emitterPool, newEmitter, Emitter.Kv, Emitter.emit).   *)
(* Goroutines run log calls of the form logger.Level(...).Kv(...).Print()   *)
(* and interleave at every statement of emit. A sync.Pool Get returns any  *)
(* emitter that was Put, or a new one.                                     *)
(***************************************************************************)
Callers == 1..MaxCallers
Emitters == 1..MaxCallers

\* the levels of the log calls
EmitLevels == {LvlInfo, LvlPanic, LvlDisable}

\* a variant of emit: the emitter goes back to the pool before it is written
emitPutFirst == << "End", "Put", "WriteLevel", "Truncate" >>

\* the statements of emit after level := e.level, in order
emitSteps == << "End", "WriteLevel", "Truncate", "Put" >>

EmitInit ==
    /\ pool = {}
    /\ created = 0
    /\ ebuf = [e \in Emitters |-> <<>>]
    /\ elvl = [e \in Emitters |-> 0]
    /\ tpc = [t \in Callers |-> 0]
    /\ tem = [t \in Callers |-> 0]
    /\ tlevel = [t \in Callers |-> 0]
    /\ tmine = [t \in Callers |-> <<>>]
    /\ ncalls = 0
    /\ gotLen = [t \in Callers |-> 0]
    /\ reused = [t \in Callers |-> FALSE]
    /\ handed = [by |-> 0, bytes |-> <<>>, own |-> <<>>]

EmitIdle == EmitInit

\* newEmitter of a disabled level: nil, and Print on nil returns
NewEmitterNil ==
    /\ \E t \in Callers, level \in EmitLevels :
         /\ tpc[t] = 0 /\ ncalls < MaxCalls
         /\ isDisabled(level, LvlDebug, GlobalUnset, 0, 1).disabled
         /\ ncalls' = ncalls + 1
    /\ UNCHANGED <<pool, created, ebuf, elvl, tpc, tem, tlevel, tmine, gotLen, reused, handed>>
    /\ UNCHANGED notEmit

\* newEmitter: Get, the fields, Start and the logger's context
NewEmitter ==
    /\ \E t \in Callers, level \in EmitLevels :
         /\ tpc[t] = 0 /\ ncalls < MaxCalls
         /\ ~isDisabled(level, LvlDebug, GlobalUnset, 0, 1).disabled
         /\ \E e \in pool \cup (IF created < MaxCallers THEN {created + 1} ELSE {}) :
              /\ pool' = pool \ {e}
              /\ created' = IF e \in 1..created THEN created ELSE created + 1
              /\ gotLen' = [gotLen EXCEPT ![t] = Len(ebuf[e])]
              /\ ebuf' = [ebuf EXCEPT ![e] = Append(@, t)]
              /\ elvl' = [elvl EXCEPT ![e] = level]
              /\ tem' = [tem EXCEPT ![t] = e]
              /\ reused' = [reused EXCEPT ![t] = e \in pool]
         /\ tmine' = [tmine EXCEPT ![t] = <<t>>]
         /\ ncalls' = ncalls + 1
         /\ tpc' = [tpc EXCEPT ![t] = 1]
    /\ UNCHANGED <<tlevel, handed>>
    /\ UNCHANGED notEmit

\* e.Kv(key, value), at most once in a call
Kv ==
    /\ \E t \in Callers :
         /\ tpc[t] = 1 /\ Len(tmine[t]) = 1
         /\ ebuf' = [ebuf EXCEPT ![tem[t]] = Append(@, t)]
         /\ tmine' = [tmine EXCEPT ![t] = Append(@, t)]
    /\ UNCHANGED <<pool, created, elvl, tpc, tem, tlevel, ncalls, gotLen, reused, handed>>
    /\ UNCHANGED notEmit

\* goroutine t moves past the statement of emit it has run; after the last
\* one the call is over: it panics if level >= LvlPanic and returns
\* otherwise, and either way the goroutine is free for its next call
Advance(t, level) ==
    IF tpc[t] < Len(emitSteps)
    THEN /\ tpc' = [tpc EXCEPT ![t] = @ + 1]
         /\ tlevel' = [tlevel EXCEPT ![t] = level]
         /\ UNCHANGED <<tem, reused>>
    ELSE /\ tpc' = [tpc EXCEPT ![t] = 0]
         /\ tem' = [tem EXCEPT ![t] = 0]
         /\ tlevel' = [tlevel EXCEPT ![t] = 0]
         /\ reused' = [reused EXCEPT ![t] = FALSE]

\* the statement of emit that goroutine t runs next
Stmt(t) == IF tpc[t] = 0 THEN "none" ELSE emitSteps[tpc[t]]

\* level := e.level, at the entry of emit
LevelOf(t) == IF tpc[t] = 1 THEN elvl[tem[t]] ELSE tlevel[t]

\* e.buffer = e.encoder.End(e.buffer, msg)
EmitEnd ==
    /\ \E t \in Callers :
         /\ Stmt(t) = "End"
         /\ ebuf' = [ebuf EXCEPT ![tem[t]] = Append(@, t)]
         /\ tmine' = [tmine EXCEPT ![t] = Append(@, t)]
         /\ Advance(t, LevelOf(t))
    /\ UNCHANGED <<pool, created, elvl, ncalls, gotLen, handed>>
    /\ UNCHANGED notEmit

\* e.writer.WriteLevel(level, e.buffer)
EmitWriteLevel ==
    /\ \E t \in Callers :
         /\ Stmt(t) = "WriteLevel"
         /\ handed' = [by |-> t, bytes |-> ebuf[tem[t]], own |-> tmine[t]]
         /\ Advance(t, LevelOf(t))
    /\ UNCHANGED <<pool, created, ebuf, elvl, tmine, ncalls, gotLen>>
    /\ UNCHANGED notEmit

\* e.buffer = e.buffer[:0]
EmitTruncate ==
    /\ \E t \in Callers :
         /\ Stmt(t) = "Truncate"
         /\ ebuf' = [ebuf EXCEPT ![tem[t]] = <<>>]
         /\ Advance(t, LevelOf(t))
    /\ UNCHANGED <<pool, created, elvl, tmine, ncalls, gotLen, handed>>
    /\ UNCHANGED notEmit

\* emitterPool.Put(e)
EmitPut ==
    /\ \E t \in Callers :
         /\ Stmt(t) = "Put"
         /\ pool' = pool \cup {tem[t]}
         /\ Advance(t, LevelOf(t))
    /\ UNCHANGED <<created, ebuf, elvl, tmine, ncalls, gotLen, handed>>
    /\ UNCHANGED notEmit

EmitNext == NewEmitterNil \/ NewEmitter \/ Kv \/ EmitEnd \/ EmitWriteLevel \/ EmitTruncate \/ EmitPut

(***************************************************************************)
(* safeWriter (writer.go): every method is Lock, the same method of the     *)
(* wrapped writer, Unlock. The wrapped writer here is one that is not safe *)
(* by itself: it takes the bytes of a Write one at a time, so that two     *)
(* goroutines inside it would mix their bytes.                             *)
(***************************************************************************)
SafeOps == {"Write", "WriteLevel", "Flush", "Close"}
SafeWrites == {"Write", "WriteLevel"}

\* number of bytes of a write through safeWriter
SafeLen == 2

\* a lock that lets every caller in
LockAlways(l) == TRUE

\* w.lock.Lock() returns only when no goroutine holds the lock
LockFree(l) == l = 0

SafeInit ==
    /\ lock = 0
    /\ spc = [t \in Callers |-> "out"]
    /\ sop = [t \in Callers |-> "none"]
    /\ sleft = [t \in Callers |-> 0]
    /\ sink = <<>>
    /\ order = <<>>
    /\ scalls = 0

SafeIdle == SafeInit

\* w.lock.Lock() at the entry of Close, Flush, Write and WriteLevel
SafeLock ==
    /\ \E t \in Callers, op \in SafeOps :
         /\ spc[t] = "out" /\ scalls < MaxCalls
         /\ LockFree(lock)
         /\ lock' = t
         /\ spc' = [spc EXCEPT ![t] = "in"]
         /\ sop' = [sop EXCEPT ![t] = op]
         /\ sleft' = [sleft EXCEPT ![t] = IF op \in SafeWrites THEN SafeLen ELSE 1]
         /\ order' = IF op \in SafeWrites THEN Append(order, t) ELSE order
         /\ scalls' = scalls + 1
    /\ UNCHANGED sink
    /\ UNCHANGED notSafe

\* w.writer.Write(p) and w.writer.WriteLevel(level, p): the next byte
SafeInnerWrite ==
    /\ \E t \in Callers :
         /\ spc[t] = "in" /\ sop[t] \in SafeWrites /\ sleft[t] > 0
         /\ sink' = Append(sink, t)
         /\ sleft' = [sleft EXCEPT ![t] = @ - 1]
    /\ UNCHANGED <<lock, spc, sop, order, scalls>>
    /\ UNCHANGED notSafe

\* Flush(w.writer) and Close(w.writer)
SafeInnerOther ==
    /\ \E t \in Callers :
         /\ spc[t] = "in" /\ sop[t] \notin SafeWrites /\ sleft[t] > 0
         /\ sleft' = [sleft EXCEPT ![t] = @ - 1]
    /\ UNCHANGED <<lock, spc, sop, sink, order, scalls>>
    /\ UNCHANGED notSafe

\* w.lock.Unlock() and the return
SafeUnlock ==
    /\ \E t \in Callers :
         /\ spc[t] = "in" /\ sleft[t] = 0
         /\ lock' = 0
         /\ spc' = [spc EXCEPT ![t] = "out"]
         /\ sop' = [sop EXCEPT ![t] = "none"]
    /\ UNCHANGED <<sleft, sink, order, scalls>>
    /\ UNCHANGED notSafe

SafeNext == SafeLock \/ SafeInnerWrite \/ SafeInnerOther \/ SafeUnlock

(***************************************************************************)
(* The rotating file, used by one caller at a time.                        *)
(***************************************************************************)
Obj == [fs |-> fs, file |-> file, nbytes |-> nbytes, npad |-> npad, closed |-> closed,
        hcloses |-> hcloses, dbl |-> dbl, err |-> FALSE, steps |-> {}]

SetObj(o) ==
    /\ fs' = o.fs
    /\ file' = o.file
    /\ nbytes' = o.nbytes
    /\ npad' = o.npad
    /\ closed' = o.closed
    /\ hcloses' = o.hcloses
    /\ dbl' = o.dbl

\* the arguments NewSizedRotatingFile is called with
Configs ==
    {[filesize |-> MaxFileSize, filenum |-> n] : n \in {0, 1, MaxBackups}}
    \cup {[filesize |-> 0, filenum |-> 1]}

\* the base file before the first call: absent (-1), or of this size
PreSizes == {-1, 0, MaxFileSize, MaxFileSize + 1}

\* a base file of MaxInt32 bytes, found by a writer that keeps no backups:
\* its last byte, and before it pad bytes that are not spelled out
BigFile == [exists |-> TRUE, data |-> <<0>>, pad |-> MaxInt32 - 1]

\* the base file before the first call
PreFile(pre) ==
    IF pre < 0 THEN NoFile
    ELSE IF pre = MaxInt32 THEN BigFile
    ELSE MkFile(Repeat(0, pre))

\* the directory and the arguments a writer starts with
Starts ==
    {[pre |-> pre, cfg |-> cfg] : pre \in PreSizes, cfg \in Configs}
    \cup {[pre |-> MaxInt32, cfg |-> [filesize |-> MaxFileSize, filenum |-> n]] :
             n \in {0, -1}}

\* the lengths of the data of a Write call: one byte, a full file, one more
DataLens == {1, MaxFileSize, MaxFileSize + 1}

\* the rotating file left alone
FileIdle ==
    /\ fs = [i \in FileIdx |-> NoFile]
    /\ file = 0
    /\ nbytes = 0
    /\ npad = 0
    /\ closed = 0
    /\ maxSize = MaxFileSize
    /\ backupCount = 1
    /\ hcloses = 0
    /\ dbl = FALSE
    /\ wid = 0
    /\ ret = [op |-> "new", n |-> 0, err |-> FALSE, rotated |-> "no"]
    /\ rot = [status |-> "none", out |-> <<>>]

FileInit ==
    /\ \E st \in Starts :
           /\ fs = [i \in FileIdx |-> IF i = 0 THEN PreFile(st.pre) ELSE NoFile]
           /\ maxSize = NewSizedRotatingFile(st.cfg.filesize, st.cfg.filenum)
           /\ backupCount = st.cfg.filenum
    /\ file = 0
    /\ nbytes = 0
    /\ npad = 0
    /\ closed = 0
    /\ hcloses = 0
    /\ dbl = FALSE
    /\ wid = 0
    /\ ret = [op |-> "new", n |-> 0, err |-> FALSE, rotated |-> "no"]
    /\ rot = [status |-> "none", out |-> <<>>]

CallWrite ==
    /\ wid < MaxWrites
    /\ \E len \in DataLens :
         LET data == Repeat(wid + 1, len)
             ok == Write(Obj, maxSize, backupCount, data, NoFault)
         IN  \E flt \in {NoFault} \cup ok.o.steps :
               LET r == Write(Obj, maxSize, backupCount, data, flt)
               IN  /\ SetObj(r.o)
                   /\ wid' = IF r.n > 0 THEN wid + 1 ELSE wid
                   /\ ret' = [op |-> "Write", n |-> r.n, err |-> r.err, rotated |-> r.rotated]
                   /\ rot' = IF r.rotated \in {"done", "broken"}
                             THEN [status |-> r.rotated, out |-> fs[0].data]
                             ELSE rot
    /\ UNCHANGED <<maxSize, backupCount>>
    /\ UNCHANGED notFile

CallClose ==
    /\ \E flt \in {NoFault} \cup Close(Obj, NoFault).steps :
         LET o == Close(Obj, flt)
         IN  /\ SetObj(o)
             /\ ret' = [op |-> "Close", n |-> 0, err |-> o.err, rotated |-> "no"]
    /\ UNCHANGED <<maxSize, backupCount, wid, rot>>
    /\ UNCHANGED notFile

(***************************************************************************)
(* Close calls on one SizedRotatingFile by several goroutines. A call goes *)
(* by one of four routes: f.Close() itself; SafeWriter(f).Close(), which    *)
(* is Lock, Close(f), Unlock; BufferWriter(f, n).Close(), which is          *)
(* w.Flush() - a Write of the buffered bytes to f, its error dropped - and  *)
(* then Close(f); LevelSplitWriter(f, {level: f}).Close(), which closes f   *)
(* as the default writer and again as a level writer. The goroutines       *)
(* interleave at every statement that reads or writes a field of f; the    *)
(* file is not locked on the buf route, so what a statement finds in       *)
(* f.file is whatever the other goroutines left there.                     *)
(***************************************************************************)
Routes == {"direct", "safe", "buf", "split"}

\* the statements that the Flush of bufWriter.Close runs in f.Write
WriteStmts == {"wclosed", "wnil", "wsize", "wwrite"}

\* the statements of the close() of doRollover and the rest of doRollover
RolloverStmts == {"rchk", "rclose", "rnil", "rrest"}

\* the statements of f.Close(): the compare-and-swap and close()
CloseStmts == {"cas", "cchk", "cclose", "cnil"}

CloseInit ==
    /\ cpc = [t \in Callers |-> "idle"]
    /\ croute = [t \in Callers |-> "none"]
    /\ cleft = [t \in Callers |-> 0]
    /\ cerr = [t \in Callers |-> FALSE]
    /\ werr = [t \in Callers |-> FALSE]
    /\ clate = [t \in Callers |-> FALSE]
    /\ cdone = FALSE
    /\ bufn = 0
    /\ berr = FALSE
    /\ wlock = 0
    /\ cret = [route |-> "none", err |-> FALSE, late |-> FALSE]
    /\ ccalls = 0

CloseIdle == CloseInit

\* f.Write(data) by the one goroutine that uses the file before the Close calls
PrepWrite ==
    /\ ccalls = 0 /\ wid = 0
    /\ \E len \in DataLens :
         LET r == Write(Obj, maxSize, backupCount, Repeat(1, len), NoFault)
         IN  /\ SetObj(r.o)
             /\ wid' = 1
             /\ ret' = [op |-> "Write", n |-> r.n, err |-> r.err, rotated |-> r.rotated]
    /\ UNCHANGED <<maxSize, backupCount, rot>>
    /\ UNCHANGED closeVars
    /\ UNCHANGED notClose

\* bufWriter.Write(p) of one byte, which stays in the buffer
PrepBuffer ==
    /\ ccalls = 0 /\ bufn = 0
    /\ bufn' = 1
    /\ UNCHANGED <<cpc, croute, cleft, cerr, werr, clate, cdone, berr, wlock, cret, ccalls>>
    /\ UNCHANGED fileVars
    /\ UNCHANGED notClose

\* a goroutine calls Close by a route
CloseStart ==
    /\ ccalls < MaxCalls
    /\ \E t \in Callers, r \in Routes :
         /\ cpc[t] = "idle"
         /\ croute' = [croute EXCEPT ![t] = r]
         /\ cleft' = [cleft EXCEPT ![t] = IF r = "split" THEN 2 ELSE 1]
         /\ cerr' = [cerr EXCEPT ![t] = FALSE]
         /\ werr' = [werr EXCEPT ![t] = FALSE]
         /\ clate' = [clate EXCEPT ![t] = cdone]
         /\ cpc' = [cpc EXCEPT ![t] = CASE r = "safe" -> "lock"
                                        [] r = "buf" -> "flush"
                                        [] OTHER -> "cas"]
    /\ ccalls' = ccalls + 1
    /\ UNCHANGED <<cdone, bufn, berr, wlock, cret>>
    /\ UNCHANGED fileVars
    /\ UNCHANGED notClose

\* safeWriter.Close: w.lock.Lock()
CloseLock ==
    /\ \E t \in Callers :
         /\ cpc[t] = "lock" /\ wlock = 0
         /\ wlock' = t
         /\ cpc' = [cpc EXCEPT ![t] = "cas"]
    /\ UNCHANGED <<croute, cleft, cerr, werr, clate, cdone, bufn, berr, cret, ccalls>>
    /\ UNCHANGED fileVars
    /\ UNCHANGED notClose

\* bufWriter.Close: w.Flush(), which writes the buffered bytes to f unless
\* there are none or an earlier Flush failed, and its end, where the buffer
\* is emptied or the error kept
BufFlush ==
    /\ \E t \in Callers :
         \/ /\ cpc[t] = "flush"
            /\ cpc' = [cpc EXCEPT ![t] = IF bufn = 0 \/ berr THEN "cas" ELSE "wclosed"]
            /\ UNCHANGED <<bufn, berr>>
         \/ /\ cpc[t] = "fdone"
            /\ bufn' = IF werr[t] THEN bufn ELSE 0
            /\ berr' = (berr \/ werr[t])
            /\ cpc' = [cpc EXCEPT ![t] = "cas"]
    /\ UNCHANGED <<croute, cleft, cerr, werr, clate, cdone, wlock, cret, ccalls>>
    /\ UNCHANGED fileVars
    /\ UNCHANGED notClose

\* f.Write(data) of the Flush, statement by statement: the closed check, open()
\* if f.file is nil, the size check, f.file.Write and the count
WriteStmt ==
    /\ \E t \in Callers :
         /\ cpc[t] \in WriteStmts
         /\ \/ /\ cpc[t] = "wclosed"
               /\ werr' = [werr EXCEPT ![t] = (closed = 1)]
               /\ cpc' = [cpc EXCEPT ![t] = IF closed = 1 THEN "fdone" ELSE "wnil"]
               /\ UNCHANGED <<fs, file, nbytes, npad, closed, hcloses, dbl, wid>>
            \/ /\ cpc[t] = "wnil"
               /\ SetObj(IF file = 0 THEN open(Obj, NoFault) ELSE Obj)
               /\ cpc' = [cpc EXCEPT ![t] = "wsize"]
               /\ UNCHANGED <<werr, wid>>
            \/ /\ cpc[t] = "wsize"
               /\ cpc' = [cpc EXCEPT ![t] = IF nbytes + 1 > maxSize - npad /\ backupCount > 0
                                              THEN "rchk" ELSE "wwrite"]
               /\ UNCHANGED <<fs, file, nbytes, npad, closed, hcloses, dbl, werr, wid>>
            \/ /\ cpc[t] = "wwrite"
               /\ LET bad == file = 0 \/ hcloses >= 1
                       w == osWrite(Obj, <<wid + 1>>, NoFault)
                  IN  /\ SetObj(IF bad THEN Obj ELSE [w.o EXCEPT !.nbytes = @ + w.n])
                      /\ wid' = IF bad THEN wid ELSE wid + 1
                      /\ werr' = [werr EXCEPT ![t] = bad]
               /\ cpc' = [cpc EXCEPT ![t] = "fdone"]
    /\ UNCHANGED <<maxSize, backupCount, ret, rot>>
    /\ UNCHANGED <<croute, cleft, cerr, clate, cdone, bufn, berr, wlock, cret, ccalls>>
    /\ UNCHANGED notClose

\* f.file.Close() on what f.file holds now: an error on nil and on a handle
\* that is closed already, which is then closed a second time
HandleClose == [err |-> file = 0 \/ hcloses >= 1,
                hcloses |-> IF file = 0 THEN hcloses ELSE hcloses + 1,
                dbl |-> dbl \/ (file # 0 /\ hcloses >= 1)]

\* doRollover of that Write: its close() - the nil check, f.file.Close(),
\* f.file = nil - and, if the close gave no error, the rest
RolloverStmt ==
    /\ \E t \in Callers :
         /\ cpc[t] \in RolloverStmts
         /\ \/ /\ cpc[t] = "rchk"
               /\ cpc' = [cpc EXCEPT ![t] = IF file # 0 THEN "rclose" ELSE "rrest"]
               /\ UNCHANGED <<fs, file, nbytes, npad, hcloses, dbl, werr>>
            \/ /\ cpc[t] = "rclose"
               /\ hcloses' = HandleClose.hcloses
               /\ dbl' = HandleClose.dbl
               /\ werr' = [werr EXCEPT ![t] = HandleClose.err]
               /\ cpc' = [cpc EXCEPT ![t] = "rnil"]
               /\ UNCHANGED <<fs, file, nbytes, npad>>
            \/ /\ cpc[t] = "rnil"
               /\ file' = 0
               /\ hcloses' = 0
               /\ cpc' = [cpc EXCEPT ![t] = IF werr[t] THEN "fdone" ELSE "rrest"]
               /\ UNCHANGED <<fs, nbytes, npad, dbl, werr>>
            \/ /\ cpc[t] = "rrest"
               /\ LET o == rolloverFiles(Obj, backupCount, NoFault)
                  IN  /\ fs' = o.fs
                      /\ file' = o.file
                      /\ nbytes' = o.nbytes
                      /\ npad' = o.npad
                      /\ hcloses' = o.hcloses
               /\ cpc' = [cpc EXCEPT ![t] = "wwrite"]
               /\ UNCHANGED <<dbl, werr>>
    /\ UNCHANGED <<closed, maxSize, backupCount, wid, ret, rot>>
    /\ UNCHANGED <<croute, cleft, cerr, clate, cdone, bufn, berr, wlock, cret, ccalls>>
    /\ UNCHANGED notClose

\* atomic.CompareAndSwapInt32(&f.closed, 0, 1)
cas(c) == c = 0

\* f.Close(), statement by statement: the compare-and-swap, and the nil check,
\* f.file.Close() and f.file = nil of close()
CloseStmt ==
    /\ \E t \in Callers :
         /\ cpc[t] \in CloseStmts
         /\ \/ /\ cpc[t] = "cas"
               /\ closed' = 1
               /\ cpc' = [cpc EXCEPT ![t] = IF cas(closed) THEN "cchk" ELSE "cret"]
               /\ UNCHANGED <<file, hcloses, dbl, cerr>>
            \/ /\ cpc[t] = "cchk"
               /\ cpc' = [cpc EXCEPT ![t] = IF file # 0 THEN "cclose" ELSE "cret"]
               /\ UNCHANGED <<file, closed, hcloses, dbl, cerr>>
            \/ /\ cpc[t] = "cclose"
               /\ hcloses' = HandleClose.hcloses
               /\ dbl' = HandleClose.dbl
               /\ cerr' = [cerr EXCEPT ![t] = @ \/ HandleClose.err]
               /\ cpc' = [cpc EXCEPT ![t] = "cnil"]
               /\ UNCHANGED <<file, closed>>
            \/ /\ cpc[t] = "cnil"
               /\ file' = 0
               /\ hcloses' = 0
               /\ cpc' = [cpc EXCEPT ![t] = "cret"]
               /\ UNCHANGED <<closed, dbl, cerr>>
    /\ UNCHANGED <<fs, nbytes, npad, maxSize, backupCount, wid, ret, rot>>
    /\ UNCHANGED <<croute, cleft, werr, clate, cdone, bufn, berr, wlock, cret, ccalls>>
    /\ UNCHANGED notClose

\* f.Close() has returned: lvlSplitWriter.Close goes on to its level writer;
\* safeWriter.Close unlocks; the call returns
CloseReturn ==
    /\ \E t \in Callers :
         /\ cpc[t] = "cret"
         /\ IF cleft[t] > 1
            THEN /\ cleft' = [cleft EXCEPT ![t] = @ - 1]
                 /\ cpc' = [cpc EXCEPT ![t] = "cas"]
                 /\ UNCHANGED <<cdone, wlock, cret>>
            ELSE /\ cleft' = [cleft EXCEPT ![t] = 0]
                 /\ cpc' = [cpc EXCEPT ![t] = "idle"]
                 /\ wlock' = IF croute[t] = "safe" THEN 0 ELSE wlock
                 /\ cdone' = TRUE
                 /\ cret' = [route |-> croute[t], err |-> cerr[t], late |-> clate[t]]
    /\ UNCHANGED <<croute, cerr, werr, clate, bufn, berr, ccalls>>
    /\ UNCHANGED fileVars
    /\ UNCHANGED notClose

CloseNext ==
    \/ PrepWrite \/ PrepBuffer \/ CloseStart \/ CloseLock \/ BufFlush
    \/ WriteStmt \/ RolloverStmt \/ CloseStmt \/ CloseReturn

(***************************************************************************)
(* The JSON record encoder. A buffer is a sequence of tokens [t, v]: the   *)
(* bytes '{' '}' '[' ']' ':' ',' and the newline, a string literal "s"     *)
(* (what AppendJSONString appends for the string v), a number "n", a       *)
(* literal "l" (null, true, false), and "x": text that is no JSON value    *)
(* (strconv.AppendFloat writes NaN, +Inf and -Inf for the floats that are  *)
(* not finite).                                                            *)
(***************************************************************************)
Tok(t, v) == [t |-> t, v |-> v]
Byte(c) == Tok(c, "")

\* AppendJSONString(dst, s)
AppendJSONString(dst, s) == Append(dst, Tok("s", s))

\* the loop over a []string: a comma before every element but the first
RECURSIVE appendStrings(_, _, _)
appendStrings(buf, v, i) ==
    IF i > Len(v) THEN buf
    ELSE appendStrings(AppendJSONString(IF i > 1 THEN Append(buf, Byte(",")) ELSE buf,
                                        v[i]), v, i + 1)

\* enc.appendAny(buf, any), for the values of JValues
appendAny(buf, any) ==
    CASE any.k = "nil" -> Append(buf, Tok("l", "null"))
      [] any.k = "int" -> Append(buf, Tok("n", any.v))
      [] any.k = "float" ->
            Append(buf, Tok(IF any.v \in {"NaN", "+Inf", "-Inf"} THEN "x" ELSE "n", any.v))
      [] any.k = "string" -> AppendJSONString(buf, any.v)
      [] any.k = "strings" ->
            Append(appendStrings(Append(buf, Byte("[")), any.vs, 1), Byte("]"))

\* Start(buf, name, level); enc.appendTime writes the time as a quoted string
Start(enc, buf, name, level) ==
    LET b0 == Append(buf, Byte("{"))
        b1 == IF Len(enc.TimeKey) > 0
              THEN Append(Append(Append(AppendJSONString(b0, enc.TimeKey), Byte(":")),
                                 Tok("s", "now")), Byte(","))
              ELSE b0
        b2 == IF Len(enc.LevelKey) > 0 /\ enc.LevelFormatFunc
              THEN Append(AppendJSONString(Append(AppendJSONString(b1, enc.LevelKey),
                                                  Byte(":")), level), Byte(","))
              ELSE b1
    IN  IF Len(enc.LoggerKey) > 0 /\ Len(name) > 0
        THEN Append(AppendJSONString(Append(AppendJSONString(b2, enc.LoggerKey),
                                            Byte(":")), name), Byte(","))
        ELSE b2

\* Encode(buf, key, value)
Encode(buf, key, value) ==
    Append(appendAny(Append(AppendJSONString(buf, key), Byte(":")), value), Byte(","))

\* EncodeInt(dst, key, value)
EncodeInt(dst, key, value) ==
    Append(Append(Append(AppendJSONString(dst, key), Byte(":")), Tok("n", value)),
           Byte(","))

\* EncodeStringSlice(dst, key, value)
EncodeStringSlice(dst, key, value) ==
    Append(appendStrings(Append(dst, Byte("[")), value, 1), Byte("]"))

\* End(buf, msg)
End(enc, buf, msg) ==
    LET b == Append(AppendJSONString(Append(AppendJSONString(buf, enc.MsgKey), Byte(":")),
                                     msg), Byte("}"))
    IN  IF enc.Newline THEN Append(b, Byte("nl")) ELSE b

\* NewJSONEncoder(formatLevel)
NewJSONEncoder(formatLevel) ==
    [Newline |-> TRUE, TimeKey |-> "t", LevelKey |-> "lvl", LoggerKey |-> "logger",
     MsgKey |-> "msg", LevelFormatFunc |-> formatLevel]

\* the encoders: the one NewJSONEncoder returns, and it with one field changed
JEncoders ==
    LET e == NewJSONEncoder(TRUE)
    IN  {e, NewJSONEncoder(FALSE), [e EXCEPT !.TimeKey = ""], [e EXCEPT !.LevelKey = ""],
         [e EXCEPT !.LoggerKey = ""], [e EXCEPT !.Newline = FALSE],
         [e EXCEPT !.TimeKey = "", !.LevelKey = "", !.LoggerKey = ""]}

\* the keys, the []string values and the values of the fields
JKeys == {"a", "b"}
StringSlices == {<< >>, <<"x">>, <<"x", "y">>}
JValues ==
    {[k |-> "nil", v |-> "", vs |-> << >>], [k |-> "int", v |-> "7", vs |-> << >>],
     [k |-> "float", v |-> "1.5", vs |-> << >>], [k |-> "float", v |-> "NaN", vs |-> << >>],
     [k |-> "string", v |-> "x", vs |-> << >>]}
    \cup {[k |-> "strings", v |-> "", vs |-> sl] : sl \in StringSlices}

JsonInit ==
    /\ jenc \in JEncoders
    /\ jname \in {"", "root"}
    /\ jbuf = << >>
    /\ jpc = "new"
    /\ jn = 0

JsonIdle ==
    /\ jenc = NewJSONEncoder(TRUE)
    /\ jname = ""
    /\ jbuf = << >>
    /\ jpc = "new"
    /\ jn = 0

\* the record is begun
JsonStart ==
    /\ jpc = "new"
    /\ jbuf' = Start(jenc, jbuf, jname, "info")
    /\ jpc' = "fields"
    /\ UNCHANGED <<jenc, jname, jn, notJson>>

\* one field, a context field or a field of the call, through Encode
JsonEncode ==
    /\ jpc = "fields" /\ jn < MaxFields
    /\ \E key \in JKeys, value \in JValues : jbuf' = Encode(jbuf, key, value)
    /\ jn' = jn + 1
    /\ UNCHANGED <<jenc, jname, jpc, notJson>>

\* one field through EncodeInt
JsonEncodeInt ==
    /\ jpc = "fields" /\ jn < MaxFields
    /\ \E key \in JKeys : jbuf' = EncodeInt(jbuf, key, "7")
    /\ jn' = jn + 1
    /\ UNCHANGED <<jenc, jname, jpc, notJson>>

\* one field through EncodeStringSlice
JsonEncodeStringSlice ==
    /\ jpc = "fields" /\ jn < MaxFields
    /\ \E key \in JKeys, value \in StringSlices :
           jbuf' = EncodeStringSlice(jbuf, key, value)
    /\ jn' = jn + 1
    /\ UNCHANGED <<jenc, jname, jpc, notJson>>

\* the record is ended
JsonEnd ==
    /\ jpc = "fields"
    /\ \E msg \in {"", "m"} : jbuf' = End(jenc, jbuf, msg)
    /\ jpc' = "done"
    /\ UNCHANGED <<jenc, jname, jn, notJson>>

JsonNext == JsonStart \/ JsonEncode \/ JsonEncodeInt \/ JsonEncodeStringSlice \/ JsonEnd

(***************************************************************************)
(* One goroutine and its log requests, each from the gate to the writer:   *)
(* Level(level) or Info() and the like (newEmitter), the chained Kv, Kvs   *)
(* and Err, then Print or Printf (emit). The content of the buffer is      *)
(* a sequence of fields <<kind, i>>: the i-th context field "ctx" of the    *)
(* logger, the field "hook" of its i-th hook, the i-th field "kv" of the    *)
(* call, the message "msg"; rfields counts the fields encoded by the call. *)
(* A hook adds one field, whose value it computes when it runs.            *)
(***************************************************************************)
Hooks == 1..MaxHooks

\* the loggers of the requests: own level, sampler, number of hooks, number
\* of context fields
RqLoggers == [level : {LvlDebug, LvlWarn}, smp : {0, 1}, hooks : 0..MaxHooks,
              ctx : 0..MaxFields]

\* the fields 1..n of a kind, in order
Fields(k, n) == [i \in 1..n |-> <<k, i>>]

\* the levels of the requests
RqLevels == {LvlDebug, LvlWarn, LvlError, LvlPanic, LvlFatal, LvlDisable}

\* a bug newEmitter could have: the hooks run before the gate is asked
newEmitterHooksFirst(l, level) ==
    LET ran == [h \in Hooks |-> IF h <= l.hooks THEN 1 ELSE 0]
    IN  IF isDisabled(level, l.level, globalLevel, l.smp, globalSampling).disabled
        THEN [em |-> 0, gets |-> 0, hooks |-> ran, fields |-> 0, buf |-> << >>]
        ELSE [em |-> 1, gets |-> 1, hooks |-> ran, fields |-> l.hooks,
              buf |-> Fields("ctx", l.ctx) \o Fields("hook", l.hooks)]

\* a bug newEmitter could have: the hooks run before the context is appended
newEmitterCtxLast(l, level) ==
    IF isDisabled(level, l.level, globalLevel, l.smp, globalSampling).disabled
    THEN [em |-> 0, gets |-> 0, hooks |-> [h \in Hooks |-> 0], fields |-> 0,
          buf |-> << >>]
    ELSE [em |-> 1, gets |-> 1,
          hooks |-> [h \in Hooks |-> IF h <= l.hooks THEN 1 ELSE 0],
          fields |-> l.hooks,
          buf |-> Fields("hook", l.hooks) \o Fields("ctx", l.ctx)]

\* newEmitter(logger, level, depth): em = 0 is the nil emitter; Start, then
\* the context of the logger, then its hooks, each of which calls Kv
newEmitter(l, level) ==
    IF isDisabled(level, l.level, globalLevel, l.smp, globalSampling).disabled
    THEN [em |-> 0, gets |-> 0, hooks |-> [h \in Hooks |-> 0], fields |-> 0,
          buf |-> << >>]
    ELSE [em |-> 1, gets |-> 1,
          hooks |-> [h \in Hooks |-> IF h <= l.hooks THEN 1 ELSE 0],
          fields |-> l.hooks,
          buf |-> Fields("ctx", l.ctx) \o Fields("hook", l.hooks)]

\* a bug emit could have: a fatal record ends in a panic, not in an exit
emitEndPanicOnly(level) ==
    IF level >= LvlPanic THEN "panic" ELSE "return"

\* what emit does once the writer has returned: exit, panic or return
emitEnd(level) ==
    IF level = LvlFatal THEN "exit" ELSE IF level >= LvlPanic THEN "panic" ELSE "return"

RqInit ==
    /\ rlog \in RqLoggers
    /\ rpc = "idle"
    /\ rem = 0
    /\ rlevel = LvlDebug
    /\ rgets = 0
    /\ rhooks = [h \in Hooks |-> 0]
    /\ rfields = 0
    /\ rkv = 0
    /\ rout = [wrote |-> 0, fields |-> 0, werr |-> FALSE, err |-> FALSE, end |-> "return",
               rec |-> << >>]
    /\ rcalls = 0
    /\ rbuf = << >>

RqIdle ==
    /\ rlog = [level |-> LvlDebug, smp |-> 0, hooks |-> 0, ctx |-> 0]
    /\ rpc = "idle"
    /\ rem = 0
    /\ rlevel = LvlDebug
    /\ rgets = 0
    /\ rhooks = [h \in Hooks |-> 0]
    /\ rfields = 0
    /\ rkv = 0
    /\ rout = [wrote |-> 0, fields |-> 0, werr |-> FALSE, err |-> FALSE, end |-> "return",
               rec |-> << >>]
    /\ rcalls = 0
    /\ rbuf = << >>

\* l.Level(level, depth): a new request, unless the process has exited
RqLevel ==
    /\ rpc \in {"idle", "done"} /\ rout.end # "exit" /\ rcalls < MaxCalls
    /\ \E level \in RqLevels :
         LET e == newEmitter(rlog, level)
         IN  /\ rlevel' = level
             /\ rem' = e.em
             /\ rgets' = e.gets
             /\ rhooks' = e.hooks
             /\ rfields' = e.fields
             /\ rbuf' = e.buf
    /\ rpc' = "chain"
    /\ rkv' = 0
    /\ rout' = [wrote |-> 0, fields |-> 0, werr |-> FALSE, err |-> FALSE, end |-> "return",
                rec |-> << >>]
    /\ rcalls' = rcalls + 1
    /\ UNCHANGED <<rlog, notRq>>

\* e.Kv(key, value), e.Err(err) (one field) or e.Kvs(kvs...) (n fields)
RqKv ==
    /\ rpc = "chain" /\ rkv < MaxFields
    /\ \E n \in {0, 1, 2} :
         /\ rfields' = IF rem = 0 THEN rfields ELSE rfields + n
         /\ rbuf' = IF rem = 0 THEN rbuf
                    ELSE LET k == Len(SelectSeq(rbuf, LAMBDA f : f[1] = "kv"))
                         IN  rbuf \o [i \in 1..n |-> <<"kv", k + i>>]
    /\ rkv' = rkv + 1
    /\ UNCHANGED <<rlog, rpc, rem, rlevel, rgets, rhooks, rout, rcalls, notRq>>

\* e.Print(args...) or e.Printf(msg, args...): emit, whose WriteLevel call
\* fails or not; neither Print nor emit has a result, and the panic carries
\* the message
RqPrint ==
    /\ rpc = "chain"
    /\ IF rem = 0
       THEN /\ rout' = [rout EXCEPT !.end = "return"]
            /\ UNCHANGED <<rfields, rbuf>>
       ELSE /\ \E failed \in BOOLEAN :
                  rout' = [wrote |-> 1, fields |-> rfields, werr |-> failed,
                           err |-> FALSE, end |-> emitEnd(rlevel),
                           rec |-> Append(rbuf, <<"msg", 0>>)]
            /\ rfields' = 0
            /\ rbuf' = << >>
    /\ rpc' = "done"
    /\ UNCHANGED <<rlog, rem, rlevel, rgets, rhooks, rkv, rcalls, notRq>>

RqNext == RqLevel \/ RqKv \/ RqPrint

(***************************************************************************)
(* The SimpleSampler. A name is the sequence of its parts, dots and the    *)
(* final star included; no part is the beginning of another one, so one    *)
(* name begins with another exactly when its sequence does. A table is a   *)
(* map from the patterns to levels, NoLevel for a key that is absent.      *)
(* Only the map s.names points to is ever written in place: salias and     *)
(* sload.alias say whether the published map, and the map a Sample call    *)
(* has loaded, is that very map.                                           *)
(***************************************************************************)
SNames == {<<"root">>, <<"root", ".", "child1">>, <<"root", ".", "child1", ".", "child2">>}
Patterns == {<<"root">>, <<"root", ".", "child1", ".", "*">>, <<"root", ".", "*">>}
NoLevel == -1
EmptyTable == [p \in Patterns |-> NoLevel]

\* the table of ExampleSimpleSampler
ExampleTable ==
    [p \in Patterns |->
        IF p = <<"root">> THEN LvlError
        ELSE IF p = <<"root", ".", "child1", ".", "*">> THEN LvlWarn ELSE NoLevel]

\* strings.HasPrefix(s, prefix)
HasPrefix(s, prefix) ==
    Len(prefix) <= Len(s) /\ SubSeq(s, 1, Len(prefix)) = prefix

\* the test Sample makes of one key of the table
matches(lname, name) ==
    LET nlen == Len(lname)
    IN  IF nlen > 0 /\ lname[nlen] = "*"
        THEN HasPrefix(name, SubSeq(lname, 1, nlen - 1))
        ELSE lname = name

\* a bug allowLevel could have: no check for LvlDisable
allowLevelNoDisable(logLevel, minLevel) == logLevel >= minLevel

\* allowLevel(logLevel, minLevel)
allowLevel(logLevel, minLevel) ==
    IF minLevel = LvlDisable THEN FALSE ELSE logLevel >= minLevel

\* Sample(name, level) on the table names it has loaded: the results it can
\* return, one for each key that the range over the map can meet first
SimpleSamplerSample(names, default, name, level) ==
    LET hit == {p \in Patterns : names[p] # NoLevel /\ matches(p, name)}
    IN  IF hit = {} THEN {allowLevel(level, default)}
        ELSE {allowLevel(level, names[p]) : p \in hit}

\* a bug updateNames could have: s.names itself is published
updateNamesShared(names) == [value |-> names, alias |-> TRUE]

\* updateNames(): a copy of s.names is published
updateNames(names) == [value |-> names, alias |-> FALSE]

\* the updates: ResetNamedLevels(names), AddNamedLevel(name, level), DelName(name)
UpdOps ==
    {[op |-> "Reset", names |-> t, name |-> <<"root">>, level |-> LvlError] :
        t \in {EmptyTable, [EmptyTable EXCEPT ![<<"root">>] = LvlError],
               [ExampleTable EXCEPT ![<<"root", ".", "*">>] = LvlDisable]}}
    \cup {[op |-> "Add", names |-> EmptyTable, name |-> p, level |-> LvlWarn] :
             p \in {<<"root">>, <<"root", ".", "child1", ".", "*">>}}
    \cup {[op |-> "Del", names |-> EmptyTable, name |-> <<"root">>, level |-> LvlError]}

\* the table after the whole of an update
Effect(o, t) ==
    CASE o.op = "Reset" -> o.names
      [] o.op = "Add" -> IF t[o.name] = NoLevel THEN [t EXCEPT ![o.name] = o.level] ELSE t
      [] o.op = "Del" -> [t EXCEPT ![o.name] = NoLevel]

Updaters == 1..MaxCallers
NotLoaded == [pc |-> "idle", name |-> <<"root">>, level |-> LvlDebug,
              table |-> EmptyTable, alias |-> FALSE, pub |-> EmptyTable]
NoUpdate == [op |-> "Del", names |-> EmptyTable, name |-> <<"root">>, level |-> LvlError]
NotReturned == [op |-> "New", name |-> <<"root">>, level |-> LvlDebug, ok |-> FALSE,
                table |-> EmptyTable, default |-> LvlInfo]

\* NewSimpleSampler(defaultThresholdLevel)
SmpInit ==
    /\ snames = EmptyTable
    /\ svalue = EmptyTable
    /\ salias = FALSE
    /\ spub = EmptyTable
    /\ slevel \in {LvlInfo, LvlDisable}
    /\ slock = 0
    /\ upc = [t \in Updaters |-> "idle"]
    /\ uop = [t \in Updaters |-> NoUpdate]
    /\ gnames = EmptyTable
    /\ gprev = EmptyTable
    /\ sload = NotLoaded
    /\ sret = NotReturned
    /\ nupd = 0

SmpIdle ==
    /\ snames = EmptyTable
    /\ svalue = EmptyTable
    /\ salias = FALSE
    /\ spub = EmptyTable
    /\ slevel = LvlInfo
    /\ slock = 0
    /\ upc = [t \in Updaters |-> "idle"]
    /\ uop = [t \in Updaters |-> NoUpdate]
    /\ gnames = EmptyTable
    /\ gprev = EmptyTable
    /\ sload = NotLoaded
    /\ sret = NotReturned
    /\ nupd = 0

\* s.names is written in place: who holds the same map sees it
WriteNames(t) ==
    /\ snames' = t
    /\ svalue' = IF salias THEN t ELSE svalue
    /\ sload' = IF sload.alias THEN [sload EXCEPT !.table = t] ELSE sload

\* s.lock.Lock() of an update
UpdLock(t) ==
    /\ upc[t] = "idle" /\ slock = 0 /\ nupd < MaxUpdates
    /\ \E o \in UpdOps :
         /\ uop' = [uop EXCEPT ![t] = o]
         /\ upc' = [upc EXCEPT ![t] = IF o.op = "Reset" THEN "make" ELSE "set"]
         /\ gprev' = gnames
         /\ gnames' = Effect(o, gnames)
    /\ slock' = t
    /\ nupd' = nupd + 1
    /\ UNCHANGED <<snames, svalue, salias, spub, slevel, sload, sret, notSmp>>

\* a bug AddNamedLevel could have: the level of a name that is registered is
\* replaced
UpdBodyOverwrite(t) ==
    /\ slock = t
    /\ \/ /\ upc[t] = "make"
          /\ snames' = EmptyTable
          /\ salias' = FALSE
          /\ sload' = [sload EXCEPT !.alias = FALSE]
          /\ upc' = [upc EXCEPT ![t] = "fill"]
          /\ UNCHANGED <<svalue, uop>>
       \/ /\ upc[t] = "fill"
          /\ LET left == {p \in Patterns : uop[t].names[p] # NoLevel}
             IN  IF left = {}
                 THEN /\ upc' = [upc EXCEPT ![t] = "store"]
                      /\ UNCHANGED <<snames, svalue, sload, uop>>
                 ELSE \E p \in left :
                        /\ WriteNames([snames EXCEPT ![p] = uop[t].names[p]])
                        /\ uop' = [uop EXCEPT ![t].names[p] = NoLevel]
                        /\ UNCHANGED upc
          /\ UNCHANGED salias
       \/ /\ upc[t] = "set"
          /\ LET has == snames[uop[t].name] # NoLevel
             IN  IF ~has /\ uop[t].op = "Del"
                 THEN /\ upc' = [upc EXCEPT ![t] = "unlock"]
                      /\ UNCHANGED <<snames, svalue, sload>>
                 ELSE /\ WriteNames([snames EXCEPT ![uop[t].name] =
                                        IF uop[t].op = "Del" THEN NoLevel ELSE uop[t].level])
                      /\ upc' = [upc EXCEPT ![t] = "store"]
          /\ UNCHANGED <<salias, uop>>
    /\ UNCHANGED <<spub, slevel, slock, gnames, gprev, sret, nupd, notSmp>>

\* one statement on s.names: the make and one turn of the loop of
\* ResetNamedLevels, the insertion of AddNamedLevel, the delete of DelName
UpdBody(t) ==
    /\ slock = t
    /\ \/ /\ upc[t] = "make"
          /\ snames' = EmptyTable
          /\ salias' = FALSE
          /\ sload' = [sload EXCEPT !.alias = FALSE]
          /\ upc' = [upc EXCEPT ![t] = "fill"]
          /\ UNCHANGED <<svalue, uop>>
       \/ /\ upc[t] = "fill"
          /\ LET left == {p \in Patterns : uop[t].names[p] # NoLevel}
             IN  IF left = {}
                 THEN /\ upc' = [upc EXCEPT ![t] = "store"]
                      /\ UNCHANGED <<snames, svalue, sload, uop>>
                 ELSE \E p \in left :
                        /\ WriteNames([snames EXCEPT ![p] = uop[t].names[p]])
                        /\ uop' = [uop EXCEPT ![t].names[p] = NoLevel]
                        /\ UNCHANGED upc
          /\ UNCHANGED salias
       \/ /\ upc[t] = "set"
          /\ LET has == snames[uop[t].name] # NoLevel
             IN  IF has = (uop[t].op = "Add")
                 THEN /\ upc' = [upc EXCEPT ![t] = "unlock"]
                      /\ UNCHANGED <<snames, svalue, sload>>
                 ELSE /\ WriteNames([snames EXCEPT ![uop[t].name] =
                                        IF has THEN NoLevel ELSE uop[t].level])
                      /\ upc' = [upc EXCEPT ![t] = "store"]
          /\ UNCHANGED <<salias, uop>>
    /\ UNCHANGED <<spub, slevel, slock, gnames, gprev, sret, nupd, notSmp>>

\* s.updateNames()
UpdStore(t) ==
    /\ slock = t /\ upc[t] = "store"
    /\ LET u == updateNames(snames)
       IN  /\ svalue' = u.value
           /\ salias' = u.alias
           /\ spub' = u.value
    /\ upc' = [upc EXCEPT ![t] = "unlock"]
    /\ UNCHANGED <<snames, slevel, slock, uop, gnames, gprev, sload, sret, nupd, notSmp>>

\* s.lock.Unlock()
UpdUnlock(t) ==
    /\ slock = t /\ upc[t] = "unlock"
    /\ slock' = 0
    /\ upc' = [upc EXCEPT ![t] = "idle"]
    /\ uop' = [uop EXCEPT ![t] = NoUpdate]
    /\ UNCHANGED <<snames, svalue, salias, spub, slevel, gnames, gprev, sload,
                   sret, nupd, notSmp>>

\* SetDefaultLevel(level)
SetDefaultLevel ==
    /\ \E level \in {LvlInfo, LvlDisable} : slevel' = level
    /\ UNCHANGED <<snames, svalue, salias, spub, slock, upc, uop, gnames, gprev, sload,
                   sret, nupd, notSmp>>

\* Sample(name, level): names := s.value.Load()
SmpLoad ==
    /\ sload.pc = "idle"
    /\ \E name \in SNames, level \in {LvlDebug, LvlInfo, LvlWarn, LvlError, LvlDisable} :
         sload' = [pc |-> "loaded", name |-> name, level |-> level, table |-> svalue,
                   alias |-> salias, pub |-> spub]
    /\ sret' = NotReturned
    /\ UNCHANGED <<snames, svalue, salias, spub, slevel, slock, upc, uop, gnames, gprev,
                   nupd, notSmp>>

\* Sample(name, level): the range over names and the return
SmpReturn ==
    /\ sload.pc = "loaded"
    /\ \E ok \in SimpleSamplerSample(sload.table, slevel, sload.name, sload.level) :
         sret' = [op |-> "Sample", name |-> sload.name, level |-> sload.level,
                  ok |-> ok, table |-> sload.table, default |-> slevel]
    /\ sload' = NotLoaded
    /\ UNCHANGED <<snames, svalue, salias, spub, slevel, slock, upc, uop, gnames, gprev,
                   nupd, notSmp>>

SmpNext ==
    \/ \E t \in Updaters : UpdLock(t) \/ UpdBody(t) \/ UpdStore(t) \/ UpdUnlock(t)
    \/ SetDefaultLevel \/ SmpLoad \/ SmpReturn

(***************************************************************************)
(* The LevelSplitWriter over the writers 1 (the default), 2 and 3. A       *)
(* writer is a "file" (it has Write and Close, as a SizedRotatingFile), a  *)
(* "safe" (it has WriteLevel too, as a SafeWriter) or a "buffer" (it has   *)
(* Write only, as a bytes.Buffer); fails says that its Close returns an    *)
(* error. wreg[level] is the writer registered for the level, 0 for none.  *)
(***************************************************************************)
Sinks == 1..3
SplitLevels == {LvlInfo, LvlWarn, LvlError}
PlainWrite == -1

\* the writers given to LevelSplitWriter
SinkKinds ==
    {<<k1, k2, k3>> :
        k1 \in {[kind |-> "file", fails |-> FALSE], [kind |-> "file", fails |-> TRUE],
                [kind |-> "buffer", fails |-> FALSE]},
        k2 \in {[kind |-> "file", fails |-> FALSE], [kind |-> "file", fails |-> TRUE],
                [kind |-> "safe", fails |-> FALSE]},
        k3 \in {[kind |-> "file", fails |-> FALSE], [kind |-> "file", fails |-> TRUE]}}

\* the maps given to LevelSplitWriter: none, the one of TestMultiLevelWriter,
\* two levels, and a level registered with the default writer itself
SplitMaps ==
    LET none == [l \in SplitLevels |-> 0]
    IN  {none, [none EXCEPT ![LvlError] = 2],
         [none EXCEPT ![LvlError] = 2, ![LvlWarn] = 3], [none EXCEPT ![LvlError] = 1]}

\* ToLevelWriter(writer): a LevelWriter is kept, another writer is wrapped
\* in a lvlWriter, whose WriteLevel calls Write
ToLevelWriter(k) == IF k.kind = "safe" THEN "WriteLevel" ELSE "Write"

\* a bug WriteLevel could have: the map is not looked at
WriteLevelToDefault(reg, level) == 1

\* lvlSplitWriter.WriteLevel(level, p): the writer that gets p
WriteLevelTo(reg, level) == IF reg[level] # 0 THEN reg[level] ELSE 1

\* Close(writer) on the LevelWriter made of a writer of kind k: the lvlWriter
\* and the safeWriter have Close, which ends in the Close of the writer if
\* it has one
CloseCalls(k) == IF k.kind = "buffer" THEN 0 ELSE 1

\* a bug Close could have: it returns at the first error
CloseUntilError(kinds, ws) ==
    LET bad == {i \in 1..Len(ws) : kinds[ws[i]].fails}
        stop == IF bad = {} THEN Len(ws)
                ELSE CHOOSE i \in bad : \A j \in bad : i <= j
    IN  [closed |-> SubSeq(ws, 1, stop),
         errors |-> IF bad = {} THEN << >> ELSE <<ws[stop]>>]

\* lvlSplitWriter.Close(): the writers closed, in ws, and the errors kept
CloseAll(kinds, ws) ==
    [closed |-> ws,
     errors |-> SelectSeq(ws, LAMBDA w : kinds[w].fails)]

SplitInit ==
    /\ wkind \in SinkKinds
    /\ wreg \in SplitMaps
    /\ wcalls = [w \in Sinks |-> << >>]
    /\ wdata = [w \in Sinks |-> << >>]
    /\ wcloses = [w \in Sinks |-> 0]
    /\ wsent = << >>
    /\ wsret = [op |-> "new", n |-> 0, err |-> FALSE, errors |-> << >>]

SplitIdle ==
    /\ wkind = <<[kind |-> "file", fails |-> FALSE], [kind |-> "file", fails |-> FALSE],
                 [kind |-> "file", fails |-> FALSE]>>
    /\ wreg = [l \in SplitLevels |-> 0]
    /\ wcalls = [w \in Sinks |-> << >>]
    /\ wdata = [w \in Sinks |-> << >>]
    /\ wcloses = [w \in Sinks |-> 0]
    /\ wsent = << >>
    /\ wsret = [op |-> "new", n |-> 0, err |-> FALSE, errors |-> << >>]

\* the writer to gets record number id in a call of its method how; the call
\* writes the record or fails
Deliver(to, id, level, how) ==
    /\ wcalls' = [wcalls EXCEPT ![to] = Append(@, [id |-> id, how |-> how])]
    /\ \E ok \in BOOLEAN :
         /\ wdata' = [wdata EXCEPT ![to] = IF ok THEN Append(@, id) ELSE @]
         /\ wsret' = [op |-> how, n |-> IF ok THEN 1 ELSE 0, err |-> ~ok, errors |-> << >>]
         /\ wsent' = Append(wsent, [id |-> id, level |-> level, ok |-> ok])
    /\ UNCHANGED <<wkind, wreg, wcloses, notSplit>>

\* w.WriteLevel(level, p)
SplitWriteLevel ==
    /\ Len(wsent) < MaxRecords /\ wsret.op # "Close"
    /\ \E level \in SplitLevels :
         LET to == WriteLevelTo(wreg, level)
         IN  Deliver(to, Len(wsent) + 1, level, ToLevelWriter(wkind[to]))

\* w.Write(p)
SplitWrite ==
    /\ Len(wsent) < MaxRecords /\ wsret.op # "Close"
    /\ Deliver(1, Len(wsent) + 1, PlainWrite, "Write")

\* w.Close(): the default writer, then the writers of the map in any ws
SplitClose ==
    /\ wsret.op # "Close"
    /\ \E ws \in {<<1>>} \cup {<<1, a>> : a \in Sinks} \cup {<<1, a, b>> : a, b \in Sinks} :
         /\ \A w \in Sinks :
              Cardinality({i \in 2..Len(ws) : ws[i] = w})
                 = Cardinality({l \in SplitLevels : wreg[l] = w})
         /\ LET c == CloseAll(wkind, ws)
            IN  /\ wcloses' = [w \in Sinks |->
                      wcloses[w] + CloseCalls(wkind[w])
                                   * Cardinality({i \in 1..Len(c.closed) : c.closed[i] = w})]
                /\ wsret' = [op |-> "Close", n |-> 0, err |-> Len(c.errors) > 0,
                             errors |-> c.errors]
    /\ UNCHANGED <<wkind, wreg, wcalls, wdata, wsent, notSplit>>

SplitNext == SplitWriteLevel \/ SplitWrite \/ SplitClose

(***************************************************************************)
(* The BufferWriter: a bufio.Writer of BufSize bytes over a wrapped        *)
(* writer, used directly or under a SafeWriter, by one goroutine. A byte   *)
(* is the number of the Write call it came with; 0 is a byte written to    *)
(* the wrapped writer directly, as TestFlush does. b is the bufio.Writer   *)
(* with the wrapped writer: [buf, err, sink]; fail says that the wrapped   *)
(* writer fails in this call, writing nothing.                             *)
(***************************************************************************)
\* b.wr.Write(p)
wrWrite(b, p, fail) ==
    IF fail THEN [b |-> [b EXCEPT !.err = TRUE], n |-> 0]
    ELSE [b |-> [b EXCEPT !.sink = @ \o p], n |-> Len(p)]

\* bufio.Writer.Flush()
bufioFlush(b, fail) ==
    IF b.err \/ Len(b.buf) = 0 THEN b
    ELSE LET w == wrWrite(b, b.buf, fail)
         IN  [w.b EXCEPT !.buf = SubSeq(@, w.n + 1, Len(@))]

\* bufio.Writer.Write(p): [b, nn]
RECURSIVE bufioWrite(_, _, _, _)
bufioWrite(b, p, nn, fail) ==
    IF Len(p) > BufSize - Len(b.buf) /\ ~b.err
    THEN IF Len(b.buf) = 0
         THEN LET w == wrWrite(b, p, fail)
              IN  bufioWrite(w.b, SubSeq(p, w.n + 1, Len(p)), nn + w.n, fail)
         ELSE LET n == BufSize - Len(b.buf)
                  c == [b EXCEPT !.buf = @ \o SubSeq(p, 1, n)]
              IN  bufioWrite(bufioFlush(c, fail), SubSeq(p, n + 1, Len(p)), nn + n, fail)
    ELSE IF b.err THEN [b |-> b, nn |-> nn]
    ELSE [b |-> [b EXCEPT !.buf = @ \o p], nn |-> nn + Len(p)]

BufObj == [buf |-> bbuf, err |-> bwerr, sink |-> bsink]

SetBufObj(b) ==
    /\ bbuf' = b.buf
    /\ bwerr' = b.err
    /\ bsink' = b.sink

\* BufferWriter(writer, bufSize), alone or as SafeWriter(BufferWriter(...))
BufInit ==
    /\ bsafe \in BOOLEAN
    /\ bbuf = << >>
    /\ bwerr = FALSE
    /\ bsink = << >>
    /\ bwrote = << >>
    /\ bnw = 0
    /\ bdirect = 0
    /\ bwret = [op |-> "new", n |-> 0, err |-> FALSE, fit |-> FALSE, sunk |-> 0]

BufIdle ==
    /\ bsafe = FALSE
    /\ bbuf = << >>
    /\ bwerr = FALSE
    /\ bsink = << >>
    /\ bwrote = << >>
    /\ bnw = 0
    /\ bdirect = 0
    /\ bwret = [op |-> "new", n |-> 0, err |-> FALSE, fit |-> FALSE, sunk |-> 0]

\* io.WriteString(w, s): bufWriter.Write, under the lock of the safeWriter
BufWrite ==
    /\ bwret.op # "Close" /\ bnw < MaxRecords
    /\ \E len \in 1..(BufSize + 1), fail \in BOOLEAN :
         LET p == [i \in 1..len |-> bnw + 1]
             w == bufioWrite(BufObj, p, 0, fail)
         IN  /\ SetBufObj(w.b)
             /\ bwrote' = bwrote \o SubSeq(p, 1, w.nn)
             /\ bwret' = [op |-> "Write", n |-> w.nn, err |-> w.b.err,
                          fit |-> len <= BufSize - Len(bbuf),
                          sunk |-> Len(w.b.sink) - Len(bsink)]
    /\ bnw' = bnw + 1
    /\ UNCHANGED <<bsafe, bdirect, notBuf>>

\* io.WriteString(buf, s): a byte written to the wrapped writer directly
BufDirect ==
    /\ bdirect < MaxRecords
    /\ bsink' = Append(bsink, 0)
    /\ bdirect' = bdirect + 1
    /\ UNCHANGED <<bsafe, bbuf, bwerr, bwrote, bnw, bwret, notBuf>>

\* Flush(w): through the safeWriter and the lvlWriter to bufio.Writer.Flush
BufFlushCall ==
    /\ bwret.op # "Close"
    /\ \E fail \in BOOLEAN :
         LET b == bufioFlush(BufObj, fail)
         IN  /\ SetBufObj(b)
             /\ bwret' = [op |-> "Flush", n |-> 0, err |-> b.err, fit |-> FALSE,
                          sunk |-> Len(b.sink) - Len(bsink)]
    /\ UNCHANGED <<bsafe, bwrote, bnw, bdirect, notBuf>>

\* Close(w): bufWriter.Close is w.Flush(); return Close(w.w), and the wrapped
\* writer, a bytes.Buffer, has no Close
BufClose ==
    /\ bwret.op # "Close"
    /\ \E fail \in BOOLEAN :
         LET b == bufioFlush(BufObj, fail)
         IN  /\ SetBufObj(b)
             /\ bwret' = [op |-> "Close", n |-> 0, err |-> FALSE, fit |-> FALSE,
                          sunk |-> Len(b.sink) - Len(bsink)]
    /\ UNCHANGED <<bsafe, bwrote, bnw, bdirect, notBuf>>

BufNext == BufWrite \/ BufDirect \/ BufFlushCall \/ BufClose

(***************************************************************************)
(* A run of equal writes: a SizedRotatingFile made in a directory without  *)
(* files of its name gets Write calls of qw bytes each, one after the      *)
(* other, on a filesystem that does not fail (TestSizedRotatingFile).      *)
(***************************************************************************)
\* file := NewSizedRotatingFile(filename, size, num), with the data to write
SeqInit ==
    /\ \E S \in 1..(MaxFileSize + 2), N \in 1..MaxBackups :
           /\ maxSize = NewSizedRotatingFile(S, N)
           /\ backupCount = N
           /\ qw \in 1..(S + 1)
    /\ fs = [i \in FileIdx |-> NoFile]
    /\ file = 0
    /\ nbytes = 0
    /\ npad = 0
    /\ closed = 0
    /\ hcloses = 0
    /\ dbl = FALSE
    /\ wid = 0
    /\ ret = [op |-> "new", n |-> 0, err |-> FALSE, rotated |-> "no"]
    /\ rot = [status |-> "none", out |-> <<>>]
    /\ qk = 0
    /\ qok = TRUE

SeqIdle ==
    /\ qw = 0
    /\ qk = 0
    /\ qok = TRUE

\* n, err := file.Write(data): the next write of the loop
SeqWrite ==
    /\ qk < MaxSeq
    /\ LET r == Write(Obj, maxSize, backupCount, Repeat(wid + 1, qw), NoFault)
       IN  /\ SetObj(r.o)
           /\ wid' = wid + 1
           /\ ret' = [op |-> "Write", n |-> r.n, err |-> r.err, rotated |-> r.rotated]
           /\ rot' = IF r.rotated \in {"done", "broken"}
                     THEN [status |-> r.rotated, out |-> fs[0].data]
                     ELSE rot
           /\ qok' = (qok /\ ~r.err /\ r.n = qw)
    /\ qk' = qk + 1
    /\ UNCHANGED <<maxSize, backupCount, qw, notFileSeq>>

(***************************************************************************)
(* How a log call ends. The sources hold two emit methods: Emitter.emit,   *)
(* which copies e.level into a local variable before anything else, and    *)
(* logger.emit, which reads l.level after it has put l back into the pool. *)
(* Goroutines run log calls on one logger whose level is fthr; a call is   *)
(* newEmitter (Get and the fields of the object), then emit in three       *)
(* steps: End, WriteLevel and the truncation; Put; the choice between      *)
(* exit, panic and return. A panic is recovered by the caller, which goes  *)
(* on; after atexit.Exit nothing runs.                                     *)
(***************************************************************************)
\* the levels of the log calls
FinLevels == {LvlDebug, LvlAlert, LvlPanic, LvlFatal}

NoCall == [done |-> FALSE, level |-> 0, enabled |-> FALSE, wrote |-> FALSE, end |-> "none"]

FinInit ==
    /\ fkind \in {"Emitter", "logger"}
    /\ fthr \in {LvlInfo, LvlDisable}
    /\ flevel = [e \in Emitters |-> 0]
    /\ fpool = {}
    /\ fmade = 0
    /\ fpc = [t \in Callers |-> "idle"]
    /\ fem = [t \in Callers |-> 0]
    /\ floc = [t \in Callers |-> 0]
    /\ fres = [t \in Callers |-> NoCall]
    /\ ftouch = FALSE
    /\ fexit = FALSE
    /\ fcalls = 0

FinIdle ==
    /\ fkind = "Emitter"
    /\ fthr = LvlInfo
    /\ flevel = [e \in Emitters |-> 0]
    /\ fpool = {}
    /\ fmade = 0
    /\ fpc = [t \in Callers |-> "idle"]
    /\ fem = [t \in Callers |-> 0]
    /\ floc = [t \in Callers |-> 0]
    /\ fres = [t \in Callers |-> NoCall]
    /\ ftouch = FALSE
    /\ fexit = FALSE
    /\ fcalls = 0

\* newEmitter of a request the gate refuses: nil, and Print on nil returns
FinNil ==
    /\ ~fexit /\ fcalls < MaxCalls
    /\ \E t \in Callers, level \in FinLevels :
         /\ fpc[t] = "idle"
         /\ isDisabled(level, fthr, GlobalUnset, 0, 1).disabled
         /\ fres' = [fres EXCEPT ![t] = [done |-> TRUE, level |-> level, enabled |-> FALSE,
                                         wrote |-> FALSE, end |-> "return"]]
    /\ fcalls' = fcalls + 1
    /\ UNCHANGED <<fkind, fthr, flevel, fpool, fmade, fpc, fem, floc, ftouch, fexit, notFin>>

\* newEmitter: Get, l.level = level
FinGet ==
    /\ ~fexit /\ fcalls < MaxCalls
    /\ \E t \in Callers, level \in FinLevels :
         /\ fpc[t] = "idle"
         /\ ~isDisabled(level, fthr, GlobalUnset, 0, 1).disabled
         /\ \E e \in fpool \cup (IF fmade < MaxCallers THEN {fmade + 1} ELSE {}) :
              /\ fpool' = fpool \ {e}
              /\ fmade' = IF e \in 1..fmade THEN fmade ELSE fmade + 1
              /\ flevel' = [flevel EXCEPT ![e] = level]
              /\ fem' = [fem EXCEPT ![t] = e]
         /\ fres' = [fres EXCEPT ![t] = [done |-> FALSE, level |-> level, enabled |-> TRUE,
                                         wrote |-> FALSE, end |-> "none"]]
         /\ fpc' = [fpc EXCEPT ![t] = "got"]
    /\ fcalls' = fcalls + 1
    /\ UNCHANGED <<fkind, fthr, floc, ftouch, fexit, notFin>>

\* emit up to the Put: level := e.level (Emitter.emit only), End, WriteLevel,
\* the truncation of the buffer
FinWrite ==
    /\ ~fexit
    /\ \E t \in Callers :
         /\ fpc[t] = "got"
         /\ floc' = [floc EXCEPT ![t] = IF fkind = "Emitter" THEN flevel[fem[t]] ELSE @]
         /\ fres' = [fres EXCEPT ![t].wrote = TRUE]
         /\ fpc' = [fpc EXCEPT ![t] = "written"]
    /\ UNCHANGED <<fkind, fthr, flevel, fpool, fmade, fem, ftouch, fexit, fcalls, notFin>>

\* emitterPool.Put(e), loggerPool.Put(l)
FinPut ==
    /\ ~fexit
    /\ \E t \in Callers :
         /\ fpc[t] = "written"
         /\ fpool' = fpool \cup {fem[t]}
         /\ fpc' = [fpc EXCEPT ![t] = "put"]
    /\ UNCHANGED <<fkind, fthr, flevel, fmade, fem, floc, fres, ftouch, fexit, fcalls, notFin>>

\* the end of emit: Emitter.emit looks at its local level, logger.emit at
\* l.level, the field of the object it has put back
FinEnd ==
    /\ ~fexit
    /\ \E t \in Callers :
         /\ fpc[t] = "put"
         /\ LET level == IF fkind = "Emitter" THEN floc[t] ELSE flevel[fem[t]]
            IN  /\ fres' = [fres EXCEPT ![t].done = TRUE, ![t].end = emitEnd(level)]
                /\ fexit' = (emitEnd(level) = "exit")
         /\ ftouch' = (ftouch \/ fkind = "logger")
         /\ fpc' = [fpc EXCEPT ![t] = "idle"]
         /\ fem' = [fem EXCEPT ![t] = 0]
    /\ UNCHANGED <<fkind, fthr, flevel, fpool, fmade, floc, fcalls, notFin>>

FinNext == FinNil \/ FinGet \/ FinWrite \/ FinPut \/ FinEnd

(***************************************************************************)
(* The context of the engines of one Output. Engine 1 is made by New with  *)
(* the first encoder; the others are clones, which share its Output. A     *)
(* context key-value is a number; the bytes an encoder appends for it are  *)
(* the pair <<encoder, key-value>>, so that the bytes of two encoders for  *)
(* one key-value differ.                                                   *)
(***************************************************************************)
CtxEncoders == {1, 2}
CtxKvs == {1, 2}

\* the lists of key-values given to AppendCtxs and ResetCtxs
CtxLists == {<< >>} \cup {<<k>> : k \in CtxKvs} \cup {<<j, k>> : j, k \in CtxKvs}

\* e.Output.encoder.Encode(e.ctx, key, value)
encodeCtx(enc, ctx, kv) == Append(ctx, <<enc, kv>>)

\* the loop of EncodeCtxs and of AppendCtxs: Encode for each key-value
RECURSIVE encodeAll(_, _, _)
encodeAll(enc, ctx, kvs) ==
    IF kvs = << >> THEN ctx
    ELSE encodeAll(enc, encodeCtx(enc, ctx, Head(kvs)), Tail(kvs))

\* EncodeCtxs(): e.ctx = e.ctx[:0], then Encode for each of e.origs
EncodeCtxs(enc, origs) == encodeAll(enc, << >>, origs)

CtxInit ==
    /\ cmade = 1
    /\ cenc = 1
    /\ corigs = [e \in Loggers |-> << >>]
    /\ cctx = [e \in Loggers |-> << >>]
    /\ cops = 0

CtxIdle == CtxInit

\* e.Clone(), e.New(name): the clone shares the Output and gets copies of
\* origs and ctx
CtxClone ==
    /\ cmade < MaxLoggers /\ cops < MaxCalls
    /\ \E e \in 1..cmade :
         /\ corigs' = [corigs EXCEPT ![cmade + 1] = corigs[e]]
         /\ cctx' = [cctx EXCEPT ![cmade + 1] = cctx[e]]
    /\ cmade' = cmade + 1
    /\ cops' = cops + 1
    /\ UNCHANGED <<cenc, notCtx>>

\* e.AppendCtx(key, value), e.AppendCtxs(kvs...)
CtxAppend ==
    /\ cops < MaxCalls
    /\ \E e \in 1..cmade, kvs \in CtxLists :
         /\ Len(corigs[e]) + Len(kvs) <= MaxFields
         /\ cctx' = [cctx EXCEPT ![e] = encodeAll(cenc, @, kvs)]
         /\ corigs' = [corigs EXCEPT ![e] = @ \o kvs]
    /\ cops' = cops + 1
    /\ UNCHANGED <<cmade, cenc, notCtx>>

\* e.ResetCtxs(kvs...): both slices are emptied, then AppendCtxs
CtxReset ==
    /\ cops < MaxCalls
    /\ \E e \in 1..cmade, kvs \in CtxLists :
         /\ cctx' = [cctx EXCEPT ![e] = encodeAll(cenc, << >>, kvs)]
         /\ corigs' = [corigs EXCEPT ![e] = kvs]
    /\ cops' = cops + 1
    /\ UNCHANGED <<cmade, cenc, notCtx>>

\* e.SetEncoder(enc): e.Output.SetEncoder(enc), then e.EncodeCtxs()
CtxSetEncoder ==
    /\ cops < MaxCalls
    /\ \E e \in 1..cmade, enc \in CtxEncoders :
         /\ cenc' = enc
         /\ cctx' = [cctx EXCEPT ![e] = EncodeCtxs(enc, corigs[e])]
    /\ cops' = cops + 1
    /\ UNCHANGED <<cmade, corigs, notCtx>>

CtxNext == CtxClone \/ CtxAppend \/ CtxReset \/ CtxSetEncoder

(***************************************************************************)
(* Properties of the rotating file.                                        *)
(***************************************************************************)
Ids(d) == {d[k] : k \in 1..Len(d)}
Older(x, y) == \A a \in Ids(x), b \in Ids(y) : a < b

\* C1: with a backup count >= 1, once this writer has put bytes into the
\* active file, that file holds at most maxSize bytes, or holds the bytes of
\* one single Write and nothing else (the write that followed a rotation);
\* and no Write has bytes both in the active file and in a backup.
C1_RotationSizeBound ==
    backupCount >= 1 =>
        LET d == fs[0].data
        IN  /\ (\E k \in 1..Len(d) : d[k] > 0) =>
                  \/ Len(d) <= maxSize
                  \/ \A k \in 1..Len(d) : d[k] = d[1]
            /\ \A i \in FileIdx \ {0} :
                  \A w \in Ids(fs[i].data) \ {0} : w \notin Ids(d)

\* C2: with a backup count N >= 1, only "filename.1" .. "filename.N" exist;
\* after a completed rotation "filename.1" holds what that rotation moved out
\* of the active file; and of two existing files the one with the larger
\* suffix holds older bytes (the active file holds the newest).
C2_RotationBackupBound ==
    backupCount >= 1 =>
        /\ \A i \in FileIdx : i > backupCount => ~fs[i].exists
        /\ rot.status = "done" => fs[1].exists /\ fs[1].data = rot.out
        /\ \A i, j \in FileIdx :
              (i < j /\ fs[i].exists /\ fs[j].exists) => Older(fs[j].data, fs[i].data)

\* C2 witness: three generations on disk after a completed rotation
C2_Witness ==
    /\ backupCount = 2
    /\ rot.status = "done"
    /\ fs[2].exists /\ 1 \in Ids(fs[2].data)
    /\ fs[1].exists /\ 2 \in Ids(fs[1].data)
    /\ 3 \in Ids(fs[0].data)

\* C3: once closed, the writer stays closed, no step changes any file, a
\* Write returns n = 0 with an error, and no handle is open.
C3_WriteAfterClose ==
    [][/\ closed = 1 =>
            /\ closed' = 1
            /\ fs' = fs
            /\ ret'.op = "Write" => (ret'.n = 0 /\ ret'.err)
       /\ closed' = 1 => file' = 0]_vars

\* C3 witness: a Write was refused after Close, with bytes on disk
C3_Witness ==
    /\ closed = 1
    /\ ret.op = "Write"
    /\ Len(fs[0].data) > 0
    /\ fs[1].exists

C12_NoBackupsNoRotation ==
    [][backupCount <= 0 =>
          /\ \A i \in FileIdx \ {0} : ~fs'[i].exists
          /\ fs[0].exists =>
                /\ fs'[0].exists /\ fs'[0].pad = fs[0].pad
                /\ Len(fs'[0].data) >= Len(fs[0].data)
                /\ SubSeq(fs'[0].data, 1, Len(fs[0].data)) = fs[0].data
          /\ (ret'.op = "Write" /\ ~ret'.err) =>
                /\ ret'.n > 0
                /\ fs'[0].exists
                /\ fs'[0].data = fs[0].data \o Repeat(wid + 1, ret'.n)]_vars

\* C12 witness: a writer without backups has written past MaxInt32 bytes and
\* past the size given to the constructor, in two writes
C12_Witness ==
    /\ backupCount <= 0 /\ ret.op = "Write" /\ ~ret.err
    /\ fs[0].pad = MaxInt32 - 1 /\ Len(fs[0].data) > 1 + MaxFileSize
    /\ wid = 2

\* C25: a Write whose rotation found the base file missing or empty, and so
\* renamed nothing, has the base file open again, has appended all its bytes
\* to it and returns no error, with the byte counter at the bytes it wrote.
C25_SkippedRotation ==
    (ret.op = "Write" /\ ret.rotated = "skipped") =>
        /\ ~ret.err /\ ret.n > 0
        /\ file # 0 /\ nbytes = ret.n /\ npad = 0
        /\ fs[0].exists /\ Len(fs[0].data) = ret.n

\* C27: while the writer has an open handle, its byte counter is the size
\* of the base file.
C27_CounterIsFileSize ==
    file # 0 => (fs[0].exists /\ nbytes = Len(fs[0].data) /\ npad = fs[0].pad)

\* the smaller of two numbers
Min(a, b) == IF a < b THEN a ELSE b

Threshold == IF globalLevel < LvlTrace THEN elevel ELSE globalLevel

\* C4 as stated: with no sampler, Enable(level) is level >= G while a global
\* level G is set, and level >= the own level while none is set.
C4_Stated ==
    (gret.op = "Enable" /\ sampler = 0) => (gret.enabled <=> gret.level >= Threshold)

\* C4 amended: the same for every requested level other than LvlDisable; a
\* request at LvlDisable is refused whatever the levels are.
C4_GlobalOverride ==
    (gret.op = "Enable" /\ sampler = 0) =>
        IF gret.level = LvlDisable THEN ~gret.enabled
        ELSE IF globalLevel >= LvlTrace THEN gret.enabled <=> gret.level >= globalLevel
        ELSE gret.enabled <=> gret.level >= elevel

\* C4 witness: a global level above the own level refuses a request the own
\* level would let through
C4_Witness ==
    /\ gret.op = "Enable" /\ sampler = 0
    /\ globalLevel = LvlError /\ elevel = LvlDebug
    /\ gret.level = LvlWarn /\ ~gret.enabled

\* C5: the sampler is called only for a request that passed the level check
\* and only while global sampling is on; a request that passed the level
\* check is let through iff there is no sampler, or global sampling is off, or
\* Sample returns true; with global sampling off the answer is the one of the
\* same logger without a sampler.
C5_Sampling ==
    gret.op = "Enable" =>
        LET passed == gret.level # LvlDisable /\ gret.level >= Threshold
        IN  /\ gret.asked => (passed /\ sampler # 0 /\ globalSampling = 1)
            /\ ~passed => ~gret.enabled
            /\ passed => (gret.enabled <=>
                            (sampler = 0 \/ globalSampling = 0 \/ Sample(sampler, gret.level)))
            /\ globalSampling = 0 =>
                  gret.enabled = ~isDisabled(gret.level, elevel, globalLevel, 0,
                                             globalSampling).disabled

\* C5 witness: with global sampling off, a request the sampler would drop
\* is let through without the sampler being called
C5_Witness ==
    /\ gret.op = "Enable" /\ sampler = 1 /\ globalSampling = 0
    /\ gret.level = LvlInfo /\ gret.enabled /\ ~gret.asked

\* C6 as stated: nothing is let through by a logger whose own level is
\* LvlDisable, nor while the global level is LvlDisable, nor at LvlDisable.
C6_Stated ==
    (gret.op = "Enable"
        /\ (elevel = LvlDisable \/ globalLevel = LvlDisable \/ gret.level = LvlDisable))
    => ~gret.enabled

\* C6 amended: a logger whose own level is LvlDisable lets nothing through
\* while no global level is set; no logger lets anything through while the
\* global level is LvlDisable; a request at LvlDisable is never let through.
C6_Disable ==
    (gret.op = "Enable"
        /\ \/ (elevel = LvlDisable /\ globalLevel < LvlTrace)
           \/ globalLevel = LvlDisable
           \/ gret.level = LvlDisable)
    => ~gret.enabled

\* C6 witness: a Fatal request refused by a logger at LvlDisable
C6_Witness ==
    /\ gret.op = "Enable" /\ elevel = LvlDisable /\ globalLevel < LvlTrace
    /\ gret.level = LvlFatal /\ ~gret.enabled

\* the level the claim gives logger n: the argument of its last SetLevel, and
\* while it has none of its own the level the claim gives its parent
RECURSIVE Inherited(_)
Inherited(n) == IF unsetH[n] /\ ParentOf(n) # 0 THEN Inherited(ParentOf(n)) ELSE lastSet[n]

\* C7 as stated, for every logger of the chain: GetLevel returns the level
\* last set on the nearest logger up the chain (itself included) that has set
\* one, and Log emits exactly the requests at or above that level.
C7_Inheritance ==
    /\ lret.op = "GetLevel" => lret.level = Inherited(lret.logger)
    /\ lret.op = "Log" => (lret.emitted <=> lret.level >= Inherited(lret.logger))

\* C7 for the Logger alone
C7_LoggerInheritance == kind = "Logger" => C7_Inheritance

\* a child Logger without a level of its own is refused a request its
\* parent's new level refuses
C7_LoggerWitness ==
    /\ kind = "Logger" /\ lret.op = "Log" /\ lret.logger = 2
    /\ unsetH[2] /\ lastSet[1] = 150 /\ lret.level = 100 /\ ~lret.emitted

\* C8: an emitter taken from the pool has an empty buffer; an emitter is
\* held by at most one call at a time and is not in the pool while a call
\* holds it, so it goes back only after that call's WriteLevel; and every byte
\* sequence passed to WriteLevel is exactly what the passing call appended.
C8_EmitterOwnership ==
    /\ \A t \in Callers : gotLen[t] = 0
    /\ \A t \in Callers : tem[t] # 0 => tem[t] \notin pool
    /\ \A t1, t2 \in Callers : (t1 # t2 /\ tem[t1] # 0) => tem[t1] # tem[t2]
    /\ \A t \in Callers : Stmt(t) \in {"End", "WriteLevel"} => tem[t] # 0
    /\ handed.bytes = handed.own
    /\ \A i \in 1..Len(handed.bytes) : handed.bytes[i] = handed.by

\* C8 witness: a goroutine has passed to the writer the record it built in an
\* emitter that had been used and put back before, while another goroutine
\* is in the middle of a call with an emitter of its own
C8_Witness ==
    \E t1, t2 \in Callers :
        /\ t1 # t2 /\ tem[t1] # 0 /\ tem[t2] # 0
        /\ reused[t2] /\ Stmt(t2) = "Truncate"
        /\ handed.by = t2 /\ Len(handed.bytes) = 3

\* the bytes the wrapped writer has got if the write calls ran one after the
\* other in the order of order: all the bytes of every call but the last, and
\* of the last one those written so far
RECURSIVE InOrder(_)
InOrder(k) ==
    IF k = 0 THEN <<>>
    ELSE LET t == order[k]
             n == IF k = Len(order) /\ spc[t] = "in" /\ sop[t] \in SafeWrites
                  THEN SafeLen - sleft[t] ELSE SafeLen
         IN  InOrder(k - 1) \o Repeat(t, n)

\* C9: at most one goroutine is inside the wrapped writer, and the wrapped
\* writer has got the bytes of the write calls call after call, in the order
\* in which the calls took the lock.
C9_SafeWriter ==
    /\ Cardinality({t \in Callers : spc[t] = "in"}) <= 1
    /\ sink = InOrder(Len(order))

\* C9 witness: one goroutine has written through the wrapper and another one
\* is inside the wrapped writer with a byte of its WriteLevel still to go,
\* while the first one is outside
C9_Witness ==
    /\ \E i, j \in 1..Len(order) : order[i] # order[j]
    /\ Len(sink) > SafeLen
    /\ \E t \in Callers : spc[t] = "in" /\ sleft[t] = 1 /\ sop[t] = "WriteLevel"
    /\ \E t \in Callers : spc[t] = "out"

\* C10 as stated: over Close calls by any route and in any interleaving, no
\* handle of the file is closed twice, and a Close call that began after
\* another one had returned returns nil. (No statement of these calls can
\* panic: the methods of a nil *os.File return an error.)
C10_IdempotentClose ==
    /\ ~dbl
    /\ cret.late => ~cret.err

\* C10 for Close calls that do not go through a BufferWriter with bytes in it
C10_Unbuffered ==
    (bufn = 0 /\ ~berr /\ wid <= 1) => C10_IdempotentClose

\* a Close call by way of the level-splitting writer has returned after
\* another Close call, on a file that was open and with nothing buffered,
\* while the other goroutine is in a Close call by way of the BufferWriter
C10_UnbufferedWitness ==
    /\ bufn = 0 /\ ~berr /\ wid = 1 /\ closed = 1 /\ file = 0
    /\ cret.late /\ cret.route = "split"
    /\ \E t \in Callers : cpc[t] = "cas" /\ croute[t] = "buf"

\* a request at the level is refused by the level check of disabled
\* (logLevel < minThresholdLevel): it is refused, the sampler was not asked,
\* and it is not the request at LvlDisable that isDisabled refuses first
ByThreshold(level) ==
    LET d == isDisabled(level, elevel, globalLevel, sampler, globalSampling)
    IN  d.disabled /\ ~d.asked /\ level # LvlDisable

\* C22 as stated: for levels a < b, if a request at a is suppressed by the
\* threshold, a request at b is not suppressed by the threshold.
C22_Stated ==
    \A a, b \in Levels : (a < b /\ ByThreshold(a)) => ~ByThreshold(b)

\* C22: with the logger, the sampler and the global level as they are, for
\* levels a < b, if a request at a is not suppressed by the threshold, a
\* request at b is not suppressed by the threshold either: the levels the
\* threshold suppresses are the ones below it. A request at LvlDisable is
\* suppressed whatever the threshold is.
C22_GateMonotonic ==
    /\ \A a, b \in Levels : (a < b /\ ~ByThreshold(a)) => ~ByThreshold(b)
    /\ \A a \in Levels : ByThreshold(a) <=> (a < Threshold /\ a # LvlDisable)
    /\ isDisabled(LvlDisable, elevel, globalLevel, sampler, globalSampling).disabled

\* C22 witness: Enable has refused a request below a global threshold that
\* differs from the own level of a logger with a sampler, and there are
\* levels on both sides of the threshold
C22_Witness ==
    /\ gret.op = "Enable" /\ ~gret.enabled /\ ~gret.asked /\ gret.level = LvlInfo
    /\ globalLevel = LvlWarn /\ elevel = LvlTrace /\ sampler # 0 /\ globalSampling = 1
    /\ ByThreshold(LvlDebug) /\ ~ByThreshold(LvlError)

(***************************************************************************)
(* Properties of the record encoder. A parser of the JSON grammar over the *)
(* tokens: each function returns the position after what it has parsed,    *)
(* or 0 when the tokens are no JSON.                                       *)
(***************************************************************************)
RECURSIVE parseValue(_, _)
RECURSIVE parseElems(_, _)
parseValue(b, i) ==
    IF i > Len(b) THEN 0
    ELSE IF b[i].t \in {"s", "n", "l"} THEN i + 1
    ELSE IF b[i].t = "["
         THEN IF i < Len(b) /\ b[i + 1].t = "]" THEN i + 2 ELSE parseElems(b, i + 1)
    ELSE 0

parseElems(b, i) ==
    LET j == parseValue(b, i)
    IN  IF j = 0 \/ j > Len(b) THEN 0
        ELSE IF b[j].t = "]" THEN j + 1
        ELSE IF b[j].t = "," THEN parseElems(b, j + 1)
        ELSE 0

\* the members of an object from position i on, n of them parsed before:
\* the position after the closing brace, the number of keys, the last key
NoParse == [end |-> 0, keys |-> 0, last |-> ""]
RECURSIVE parseMembers(_, _, _)
parseMembers(b, i, n) ==
    IF i + 1 > Len(b) \/ b[i].t # "s" \/ b[i + 1].t # ":" THEN NoParse
    ELSE LET j == parseValue(b, i + 2)
         IN  IF j = 0 \/ j > Len(b) THEN NoParse
             ELSE IF b[j].t = "}" THEN [end |-> j + 1, keys |-> n + 1, last |-> b[i].v]
             ELSE IF b[j].t = "," THEN parseMembers(b, j + 1, n + 1)
             ELSE NoParse

parseObject(b) ==
    IF Len(b) < 2 \/ b[1].t # "{" THEN NoParse
    ELSE IF b[2].t = "}" THEN [end |-> 3, keys |-> 0, last |-> ""]
    ELSE parseMembers(b, 2, 0)

\* the keys Start writes
HeadKeys ==
    (IF Len(jenc.TimeKey) > 0 THEN 1 ELSE 0)
    + (IF Len(jenc.LevelKey) > 0 /\ jenc.LevelFormatFunc THEN 1 ELSE 0)
    + (IF Len(jenc.LoggerKey) > 0 /\ Len(jname) > 0 THEN 1 ELSE 0)

\* C13: the bytes of Start, one Encode or typed Encode per field, and End are
\* one JSON object and nothing else but the newline: its members are the
\* keys of Start, one key for each field, and the message key, which is last.
C13_RecordFraming ==
    jpc = "done" =>
        LET r == parseObject(jbuf)
        IN  /\ r.end # 0
            /\ \/ r.end = Len(jbuf) + 1
               \/ r.end = Len(jbuf) /\ jbuf[r.end].t = "nl"
            /\ r.keys = HeadKeys + jn + 1
            /\ r.last = jenc.MsgKey

\* C14: a log call whose WriteLevel call returned an error gives that error to
\* its caller.
C14_WriteErrorSurfaced ==
    (rpc = "done" /\ rout.wrote > 0 /\ rout.werr) => rout.err

\* C20: a request the gate suppresses does nothing: newEmitter returns nil
\* having taken no emitter from the pool and run no hook (so that no value a
\* hook computes is computed), the chained calls encode no field, and Print
\* passes nothing to the writer and returns. A request the gate lets through
\* takes one emitter, runs each hook of the logger exactly once, and Print
\* makes one WriteLevel call.
C20_SuppressedPathInert ==
    rpc # "idle" =>
        LET off == isDisabled(rlevel, rlog.level, globalLevel, rlog.smp,
                              globalSampling).disabled
        IN  /\ off =>
                  /\ rem = 0 /\ rgets = 0 /\ rfields = 0
                  /\ \A h \in Hooks : rhooks[h] = 0
                  /\ rout.wrote = 0 /\ rout.end = "return"
            /\ ~off =>
                  /\ rem = 1 /\ rgets = 1
                  /\ \A h \in Hooks : rhooks[h] = (IF h <= rlog.hooks THEN 1 ELSE 0)
                  /\ rout.wrote = (IF rpc = "done" THEN 1 ELSE 0)

\* C20 witness: a request at a level above the threshold of a logger with
\* two hooks, suppressed by the sampler, after Kv calls and Print
C20_Witness ==
    /\ rpc = "done" /\ rem = 0 /\ rkv = MaxFields
    /\ rlog.hooks = MaxHooks /\ rlog.smp = 1 /\ rlevel = LvlWarn /\ rlog.level = LvlDebug
    /\ rcalls > 1

\* C21 as stated: in a record written, the context fields of the logger come
\* first, then the fields of the call, then the fields of the hooks, and the
\* message last.
C21_Stated ==
    (rpc = "done" /\ rout.wrote > 0) =>
        rout.rec = Fields("ctx", rlog.ctx) \o Fields("kv", rout.fields - rlog.hooks)
                     \o Fields("hook", rlog.hooks) \o << <<"msg", 0>> >>

\* C21: in a record written, the context fields of the logger come first in
\* the order they were added, then the fields of the hooks in the order of
\* the hooks, then the fields of the call in call order, and the message
\* last.
C21_FieldOrder ==
    (rpc = "done" /\ rout.wrote > 0) =>
        rout.rec = Fields("ctx", rlog.ctx) \o Fields("hook", rlog.hooks)
                     \o Fields("kv", rout.fields - rlog.hooks) \o << <<"msg", 0>> >>

\* C21 witness: a record with two context fields, two hook fields and at
\* least two fields of the call
C21_Witness ==
    /\ rpc = "done" /\ rout.wrote > 0
    /\ rlog.ctx = 2 /\ rlog.hooks = 2 /\ rout.fields >= 4 /\ Len(rout.rec) >= 7

(***************************************************************************)
(* Properties of the sampler.                                              *)
(***************************************************************************)
\* what ExampleSimpleSampler prints: the names and levels that pass
ExamplePasses ==
    {<<(<<"root">>), LvlError>>}
    \cup {<<(<<"root", ".", "child1">>), l>> : l \in {LvlInfo, LvlWarn, LvlError}}
    \cup {<<(<<"root", ".", "child1", ".", "child2">>), l>> : l \in {LvlWarn, LvlError}}

C16_PublishedSnapshot ==
    /\ svalue = spub
    /\ sload.pc = "loaded" => sload.table = sload.pub
    /\ svalue \in {gprev, gnames}
    /\ slock = 0 => (svalue = gnames /\ snames = gnames)

\* C16 witness: a Sample call has loaded the table while ResetNamedLevels,
\* which holds the lock, has inserted a part of the new table
C16_Witness ==
    /\ sload.pc = "loaded" /\ slock # 0
    /\ \E t \in Updaters :
         /\ upc[t] = "fill" /\ snames # EmptyTable
         /\ \E p \in Patterns : uop[t].names[p] # NoLevel
    /\ sload.table # snames /\ sload.table # EmptyTable

\* C30: AddNamedLevel(name, level) on a name that is registered leaves the
\* table and the published snapshot as they are, with the level the name
\* had; on a name that is not registered it adds the entry name -> level to
\* the table, changes no other entry, and publishes that table; it never
\* changes the default level.
C30_AddNamedLevel ==
    /\ [](\A t \in Updaters : (uop[t].op = "Add" /\ upc[t] = "unlock") =>
             /\ svalue = snames /\ spub = snames
             /\ snames = IF gprev[uop[t].name] # NoLevel THEN gprev
                         ELSE [gprev EXCEPT ![uop[t].name] = uop[t].level])
    /\ [](slock = 0 => (snames = gnames /\ svalue = snames))
    /\ [][\A t \in Updaters :
             (uop[t].op = "Add" /\ upc[t] \in {"set", "store"} /\ upc'[t] # upc[t]) =>
                 /\ slevel' = slevel
                 /\ (upc[t] = "set" /\ snames[uop[t].name] # NoLevel) =>
                        /\ snames' = snames /\ svalue' = svalue /\ spub' = spub
                        /\ upc'[t] = "unlock"
                 /\ (upc[t] = "set" /\ snames[uop[t].name] = NoLevel) =>
                        /\ snames' = [snames EXCEPT ![uop[t].name] = uop[t].level]
                        /\ spub' = spub
                 /\ upc[t] = "store" =>
                        /\ snames' = snames /\ svalue' = snames /\ spub' = snames]_vars

\* C30 witness: AddNamedLevel has run on a name that was registered with
\* another level
C30_Witness ==
    \E t \in Updaters :
        /\ uop[t].op = "Add" /\ upc[t] = "unlock"
        /\ gprev[uop[t].name] \notin {NoLevel, uop[t].level}
        /\ snames[uop[t].name] = gprev[uop[t].name]

(***************************************************************************)
(* Properties of the LevelSplitWriter.                                     *)
(***************************************************************************)
\* the writer a record has to go to
RouteOf(r) ==
    IF r.level # PlainWrite /\ wreg[r.level] # 0 THEN wreg[r.level] ELSE 1

\* C17: each writer has been passed exactly the records given for a level it
\* is registered for, and the default writer those given for a level without
\* entry or by Write, in the order given; so every record went to exactly one
\* writer, and each writer holds those of its records it did not fail to write.
C17_SplitRouting ==
    \A w \in Sinks :
        LET mine == SelectSeq(wsent, LAMBDA r : RouteOf(r) = w)
        IN  /\ Len(wcalls[w]) = Len(mine)
            /\ \A i \in 1..Len(mine) : wcalls[w][i].id = mine[i].id
            /\ LET kept == SelectSeq(mine, LAMBDA r : r.ok)
               IN  /\ Len(wdata[w]) = Len(kept)
                   /\ \A i \in 1..Len(kept) : wdata[w][i] = kept[i].id

\* C17 witness: TestMultiLevelWriter, an info and an error record, then Close
C17_Witness ==
    /\ wsret.op = "Close"
    /\ wreg[LvlError] = 2 /\ wreg[LvlWarn] = 0
    /\ Len(wsent) = 2 /\ wsent[1].level = LvlInfo /\ wsent[2].level = LvlError
    /\ wdata[1] = <<1>> /\ wdata[2] = <<2>> /\ wdata[3] = << >>

\* C18: after Close of the LevelSplitWriter the default writer and every
\* writer of the map that can be closed has got its Close call (one for each
\* time it is named), whichever of them failed; the result is nil exactly
\* when none failed, and else holds the error of each one that failed.
C18_SplitClose ==
    wsret.op = "Close" =>
        /\ \A w \in Sinks :
              wcloses[w] = IF wkind[w].kind = "buffer" THEN 0
                           ELSE (IF w = 1 THEN 1 ELSE 0)
                                + Cardinality({l \in SplitLevels : wreg[l] = w})
        /\ wsret.err = (\E w \in Sinks : wcloses[w] > 0 /\ wkind[w].fails)
        /\ \A w \in Sinks :
              Cardinality({i \in 1..Len(wsret.errors) : wsret.errors[i] = w})
                 = IF wkind[w].fails THEN wcloses[w] ELSE 0

\* C18 witness: the default writer and one writer of the map fail to close,
\* another writer of the map is closed
C18_Witness ==
    /\ wsret.op = "Close" /\ wsret.err
    /\ wkind[1].fails /\ wkind[3].fails /\ ~wkind[2].fails
    /\ wcloses = <<1, 1, 1>>

(***************************************************************************)
(* Properties of the BufferWriter.                                         *)
(***************************************************************************)
\* C19: a Write whose bytes fit in the free space of the buffer delivers
\* nothing to the wrapped writer; and once Flush or Close has returned
\* without an error, the wrapped writer has got every byte written through
\* the BufferWriter before, once and in the order written.
C19_BufferedDelivery ==
    /\ (bwret.op = "Write" /\ bwret.fit) => bwret.sunk = 0
    /\ (bwret.op \in {"Flush", "Close"} /\ ~bwret.err) =>
          SelectSeq(bsink, LAMBDA x : x # 0) = bwrote

\* C29: when Close of a BufferWriter has returned no error, no byte is left
\* in the buffer and the wrapped writer has got every byte written; a Close
\* that could not flush the buffer returns an error.
C29_CloseReportsFlush ==
    bwret.op = "Close" =>
        /\ (Len(bbuf) > 0 \/ bwerr) => bwret.err
        /\ ~bwret.err => Len(SelectSeq(bsink, LAMBDA x : x # 0)) = Len(bwrote)

(***************************************************************************)
(* Properties of the end of a log call.                                    *)
(***************************************************************************)
\* C24: a call ends in a panic only as a request at LvlPanic the gate let
\* through, and in an exit only as such a request at LvlFatal, in both cases
\* after the writer has got its record; every such request ends that way; a
\* request below LvlPanic returns, and so does a request the gate refused,
\* whose record the writer never gets.
C24_PanicFatalAfterWrite ==
    \A t \in Callers :
        /\ fres[t].end \in {"panic", "exit"} => (fres[t].enabled /\ fres[t].wrote)
        /\ fres[t].end = "panic" <=> (fres[t].done /\ fres[t].enabled /\ fres[t].level = LvlPanic)
        /\ fres[t].end = "exit" <=> (fres[t].done /\ fres[t].enabled /\ fres[t].level = LvlFatal)
        /\ (fres[t].done /\ fres[t].level < LvlPanic) => fres[t].end = "return"
        /\ (fres[t].done /\ ~fres[t].enabled) => (fres[t].end = "return" /\ ~fres[t].wrote)
        /\ (fres[t].done /\ fres[t].enabled) => fres[t].wrote
        /\ fexit => \E u \in Callers : fres[u].end = "exit"

\* C24 witness: one goroutine has panicked with its record written and gone
\* on, and the other one has then exited the process with its own record
\* written, in the object the first one had put back
C24_Witness ==
    \E t, u \in Callers :
        /\ t # u /\ fres[t].end = "panic" /\ fres[t].wrote
        /\ fres[u].end = "exit" /\ fres[u].wrote /\ fexit /\ fmade = 1

\* C26: an emit does not read or write its object after the Put, and how a
\* call ends depends on the level of its own request only.
C26_NoUseAfterPut ==
    /\ ~ftouch
    /\ \A t \in Callers :
          (fres[t].done /\ fres[t].enabled) => fres[t].end = emitEnd(fres[t].level)

(***************************************************************************)
(* Properties of the context of the engines.                               *)
(***************************************************************************)
\* C28: the bytes every engine holds encoded in advance are the encoding of
\* its context key-values, in order, by the encoder its Output has now.
C28_CtxMatchesEncoder ==
    \A e \in 1..cmade :
        cctx[e] = [i \in 1..Len(corigs[e]) |-> <<cenc, corigs[e][i]>>]

Init == FileInit /\ GateIdle /\ ChainIdle /\ EmitIdle /\ SafeIdle
    /\ CloseIdle /\ JsonIdle /\ RqIdle /\ SmpIdle /\ SplitIdle /\ BufIdle /\ SeqIdle /\ FinIdle /\ CtxIdle

Next == CallWrite \/ CallClose

Spec == Init /\ [][Next]_vars

\* the gate alone
InitGate == FileIdle /\ GateInit /\ ChainIdle /\ EmitIdle /\ SafeIdle
    /\ CloseIdle /\ JsonIdle /\ RqIdle /\ SmpIdle /\ SplitIdle /\ BufIdle /\ SeqIdle /\ FinIdle /\ CtxIdle

\* the chain of loggers alone
InitInherit == FileIdle /\ GateIdle /\ ChainInit /\ EmitIdle /\ SafeIdle
    /\ CloseIdle /\ JsonIdle /\ RqIdle /\ SmpIdle /\ SplitIdle /\ BufIdle /\ SeqIdle /\ FinIdle /\ CtxIdle

\* the emitter pool alone
InitEmit == FileIdle /\ GateIdle /\ ChainIdle /\ EmitInit /\ SafeIdle
    /\ CloseIdle /\ JsonIdle /\ RqIdle /\ SmpIdle /\ SplitIdle /\ BufIdle /\ SeqIdle /\ FinIdle /\ CtxIdle

SpecEmit == InitEmit /\ [][EmitNext]_vars

\* safeWriter alone
InitSafe == FileIdle /\ GateIdle /\ ChainIdle /\ EmitIdle /\ SafeInit
    /\ CloseIdle /\ JsonIdle /\ RqIdle /\ SmpIdle /\ SplitIdle /\ BufIdle /\ SeqIdle /\ FinIdle /\ CtxIdle

SpecSafe == InitSafe /\ [][SafeNext]_vars

\* goroutines closing one rotating file
InitClose == FileIdle /\ GateIdle /\ ChainIdle /\ EmitIdle /\ SafeIdle /\ CloseInit /\ JsonIdle /\ RqIdle /\ SmpIdle /\ SplitIdle /\ BufIdle /\ SeqIdle /\ FinIdle /\ CtxIdle

SpecClose == InitClose /\ [][CloseNext]_vars

SpecInherit == InitInherit /\ [][ChainNext]_vars

SpecGate == InitGate /\ [][GateNext]_vars

\* the record encoder alone
InitJson == FileIdle /\ GateIdle /\ ChainIdle /\ EmitIdle /\ SafeIdle
    /\ CloseIdle /\ JsonInit /\ RqIdle /\ SmpIdle /\ SplitIdle /\ BufIdle /\ SeqIdle /\ FinIdle /\ CtxIdle

SpecJson == InitJson /\ [][JsonNext]_vars

\* the requests of one goroutine alone
InitRq == FileIdle /\ GateIdle /\ ChainIdle /\ EmitIdle /\ SafeIdle
    /\ CloseIdle /\ JsonIdle /\ RqInit /\ SmpIdle /\ SplitIdle /\ BufIdle /\ SeqIdle /\ FinIdle /\ CtxIdle

SpecRq == InitRq /\ [][RqNext]_vars

\* the sampler alone
InitSmp == FileIdle /\ GateIdle /\ ChainIdle /\ EmitIdle /\ SafeIdle
    /\ CloseIdle /\ JsonIdle /\ RqIdle /\ SmpInit /\ SplitIdle /\ BufIdle /\ SeqIdle /\ FinIdle /\ CtxIdle

SpecSmp == InitSmp /\ [][SmpNext]_vars

\* the LevelSplitWriter alone
InitSplit == FileIdle /\ GateIdle /\ ChainIdle /\ EmitIdle /\ SafeIdle
    /\ CloseIdle /\ JsonIdle /\ RqIdle /\ SmpIdle /\ SplitInit /\ BufIdle /\ SeqIdle /\ FinIdle /\ CtxIdle

SpecSplit == InitSplit /\ [][SplitNext]_vars

\* the BufferWriter alone
InitBuf == FileIdle /\ GateIdle /\ ChainIdle /\ EmitIdle /\ SafeIdle
    /\ CloseIdle /\ JsonIdle /\ RqIdle /\ SmpIdle /\ SplitIdle /\ BufInit /\ SeqIdle /\ FinIdle /\ CtxIdle

SpecBuf == InitBuf /\ [][BufNext]_vars

\* a run of equal writes to a rotating file
InitSeq == GateIdle /\ ChainIdle /\ EmitIdle /\ SafeIdle /\ CloseIdle
    /\ JsonIdle /\ RqIdle /\ SmpIdle /\ SplitIdle /\ BufIdle /\ SeqInit /\ FinIdle /\ CtxIdle

SpecSeq == InitSeq /\ [][SeqWrite]_vars

\* log calls of several goroutines through Emitter.emit
InitFin == FileIdle /\ GateIdle /\ ChainIdle /\ EmitIdle /\ SafeIdle
    /\ CloseIdle /\ JsonIdle /\ RqIdle /\ SmpIdle /\ SplitIdle /\ BufIdle /\ SeqIdle
    /\ FinInit /\ fkind = "Emitter" /\ CtxIdle

SpecFin == InitFin /\ [][FinNext]_vars

\* log calls of several goroutines through logger.emit
InitFinLogger == FileIdle /\ GateIdle /\ ChainIdle /\ EmitIdle /\ SafeIdle
    /\ CloseIdle /\ JsonIdle /\ RqIdle /\ SmpIdle /\ SplitIdle /\ BufIdle /\ SeqIdle
    /\ FinInit /\ fkind = "logger" /\ CtxIdle

SpecFinLogger == InitFinLogger /\ [][FinNext]_vars

\* the context of the engines of one Output
InitCtx == FileIdle /\ GateIdle /\ ChainIdle /\ EmitIdle /\ SafeIdle
    /\ CloseIdle /\ JsonIdle /\ RqIdle /\ SmpIdle /\ SplitIdle /\ BufIdle /\ SeqIdle
    /\ FinIdle /\ CtxInit

SpecCtx == InitCtx /\ [][CtxNext]_vars

====
